---- MODULE Spec2Model ----
(***************************************************************************)
(* A model of the media lifecycle orchestrator of go-medialibrary:         *)
(* DefaultMediaLibrary (ingestion, copy/move, derived-artifact generation, *)
(* URL resolution) over its collaborators: the DiskManager registry, the   *)
(* Storage backends (S3Storage, LocalStorage), the GormMediaRepository,    *)
(* the ImagingTransformer registry and the DefaultPathGenerator.           *)
(*                                                                         *)
(* Strings are sequences of tokens (a file name is <<"photo",".","png">>), *)
(* a storage key is a sequence of such segments, stored bytes are          *)
(* sequences of tokens, a JSON document is a tagged value.  Every public   *)
(* method is one action; the backend calls it issues are appended to the   *)
(* call log `calls`, and the failures of those calls are inputs.           *)
(***************************************************************************)
EXTENDS Integers, Sequences, FiniteSets, TLC

VARIABLES
    disks,      \* DiskManager.disks: the registered disk names
    store,      \* the objects of each backend: store[d] maps a key to bytes
    repo,       \* the repository's rows, repo[id] is the row with that ID
    media,      \* the caller's in-memory records (*models.Media), by ID
    uuidSeq,    \* the number of UUIDs generated so far (uuid.NewV4)
    calls,      \* the backend calls issued by the last operation, in order
    last,       \* the last operation: its name, arguments and results
    threads,    \* the PerformConversions calls in progress on concurrent goroutines
    healthy,    \* the backends have stopped failing
    skipped,    \* the names a retried PerformConversions call has skipped so far
                \* because their transform or store failed
    dm,         \* the DiskManager as its goroutines see it: the disks map with
                \* the storage behind each name, and the state of its RWMutex
    callers,    \* the DiskManager calls in progress on concurrent goroutines
    probe,      \* the last evaluation of one of the library's pure functions:
                \* the function, its arguments and its result
    recipes,    \* ImagingTransformer.responsiveConversions: the registered
                \* responsive recipes, each with its widths and its *Options
    enc         \* a generation call seen at the grain of its encode-then-store
                \* steps: the encoder goroutines, their pipes and the Save
                \* that reads them

vars == <<disks, store, repo, media, uuidSeq, calls, last, threads, healthy, skipped, dm, callers,
         probe, recipes, enc>>

----------------------------------------------------------------------------
(* Bounds *)

MaxIngested == 1    \* records created by the ingestion variants
MaxRecords  == 2    \* records the repository may hold (ingested, copied, moved)
MaxNames   == 2     \* length of a conversionNames argument
MaxThreads == 2     \* goroutines calling PerformConversions at the same time
MaxChunks  == 2     \* Write calls an encoder makes on its pipe

----------------------------------------------------------------------------
(* Generic helpers *)

\* Go's zero value for a missing map key: m[k] on map[string]bool
Lookup(m, k) == IF k \in DOMAIN m THEN m[k] ELSE FALSE

Put(m, k, v) == [x \in (DOMAIN m) \cup {k} |-> IF x = k THEN v ELSE m[x]]

Drop(m, k) == [x \in (DOMAIN m) \ {k} |-> m[x]]

EmptyMap == [x \in {} |-> TRUE]

RECURSIVE SelectSegs(_)
SelectSegs(segs) ==
    IF segs = <<>> THEN <<>>
    ELSE IF Head(segs) = <<>> THEN SelectSegs(Tail(segs))
         ELSE <<Head(segs)>> \o SelectSegs(Tail(segs))

SeqsUpTo(S, n) == UNION {[1..k -> S] : k \in 0..n}

----------------------------------------------------------------------------
(* File names: path/filepath and strings *)

\* the index of the last "." token of a name, 0 when it has none
LastDot(f) ==
    LET dots == {i \in 1..Len(f) : f[i] = "."}
    IN  IF dots = {} THEN 0 ELSE CHOOSE i \in dots : \A j \in dots : j <= i

\* filepath.Ext: the suffix beginning at the final dot, empty without a dot
Ext(f) == IF LastDot(f) = 0 THEN <<>> ELSE SubSeq(f, LastDot(f), Len(f))

\* strings.TrimSuffix(f, ext)
TrimSuffix(f, ext) ==
    IF Len(ext) <= Len(f) /\ SubSeq(f, Len(f) - Len(ext) + 1, Len(f)) = ext
    THEN SubSeq(f, 1, Len(f) - Len(ext))
    ELSE f

\* filepath.Base of a slash-separated path given as its segments
Base(segs) ==
    LET s == SelectSegs(segs)
    IN  IF s = <<>> THEN <<".">> ELSE s[Len(s)]

----------------------------------------------------------------------------
(* DefaultPathGenerator *)

\* DefaultPathGenerator.prefix, from Options.PathGeneratorPrefix (unset: "")
prefix == <<>>

\* filepath.Clean on segments: a leading empty segment marks a rooted key,
\* every other empty segment (a doubled slash) is dropped
cleanPath(segs) ==
    IF segs # <<>> /\ Head(segs) = <<>>
    THEN <<<<>>>> \o SelectSegs(segs)
    ELSE SelectSegs(segs)

\* the methods of a DefaultPathGenerator p = [prefix |-> ...]

\* fmt.Sprintf("%s/%d/", p.prefix, media.ID): the trailing slash is an empty segment
getBasePathOf(p, m) == <<p.prefix, <<ToString(m.ID)>>, <<>>>>

GetPathOf(p, m) == cleanPath(getBasePathOf(p, m) \o <<m.FileName>>)

\* GetPathForConversionOf without the conversions directory
GetPathForConversionFlat(p, m, conversionName) ==
    cleanPath(getBasePathOf(p, m)
              \o <<TrimSuffix(m.FileName, Ext(m.FileName))
                     \o <<"-", conversionName>> \o Ext(m.FileName)>>)

GetPathForConversionOf(p, m, conversionName) ==
    LET ext      == Ext(m.FileName)
        basename == TrimSuffix(m.FileName, ext)
    IN  cleanPath(getBasePathOf(p, m)
                  \o <<<<conversionName>>, <<"conversions">>,
                       basename \o <<"-", conversionName>> \o ext>>)

GetPathForResponsiveImageOf(p, m, conversionName, width) ==
    LET ext      == Ext(m.FileName)
        basename == TrimSuffix(m.FileName, ext)
    IN  cleanPath(getBasePathOf(p, m)
                  \o <<<<conversionName>>, <<"responsive-images">>,
                       basename \o <<"-", conversionName, "-", ToString(width)>> \o ext>>)

\* m.pathGenerator: &DefaultPathGenerator{prefix: opts.PathGeneratorPrefix}
pathGenerator == [prefix |-> prefix]

\* the same methods on the library's path generator
getBasePath(m) == getBasePathOf(pathGenerator, m)

GetPath(m) == GetPathOf(pathGenerator, m)

GetPathForConversion(m, conversionName) ==
    GetPathForConversionOf(pathGenerator, m, conversionName)

GetPathForResponsiveImage(m, conversionName, width) ==
    GetPathForResponsiveImageOf(pathGenerator, m, conversionName, width)

----------------------------------------------------------------------------
(* encoding/json on the two index columns (json.RawMessage) *)

JBool(b)  == [k |-> "bool", b |-> b, m |-> EmptyMap, a |-> <<>>]
JObj(mem) == [k |-> "object", b |-> FALSE, m |-> mem, a |-> <<>>]

\* a JSON array of numbers
JArr(nums) == [k |-> "array", b |-> FALSE, m |-> EmptyMap, a |-> nums]

\* json.RawMessage("{}")
EmptyObject == JObj(EmptyMap)

\* json.Marshal(map[string]bool)
MarshalBoolMap(gm) == JObj([x \in DOMAIN gm |-> JBool(gm[x])])

\* json.Unmarshal(raw, &map[string]bool): an object whose members are booleans
UnmarshalBoolMap(raw) ==
    IF raw.k = "object" /\ \A x \in DOMAIN raw.m : raw.m[x].k = "bool"
    THEN [ok |-> TRUE,  v |-> [x \in DOMAIN raw.m |-> raw.m[x].b]]
    ELSE [ok |-> FALSE, v |-> EmptyMap]

\* json.Marshal(map[string]map[string]bool)
MarshalNestedBoolMap(rm) == JObj([x \in DOMAIN rm |-> MarshalBoolMap(rm[x])])

\* json.Unmarshal(raw, &map[string]map[string]bool)
UnmarshalNestedBoolMap(raw) ==
    IF raw.k = "object" /\ \A x \in DOMAIN raw.m : UnmarshalBoolMap(raw.m[x]).ok
    THEN [ok |-> TRUE,  v |-> [x \in DOMAIN raw.m |-> UnmarshalBoolMap(raw.m[x]).v]]
    ELSE [ok |-> FALSE, v |-> EmptyMap]

\* json.Unmarshal(raw, &map[string][]int): an object whose members are arrays
\* of numbers; any other member is an UnmarshalTypeError
UnmarshalIntListMap(raw) ==
    IF raw.k = "object" /\ \A x \in DOMAIN raw.m : raw.m[x].k = "array"
    THEN [ok |-> TRUE,  v |-> [x \in DOMAIN raw.m |-> raw.m[x].a]]
    ELSE [ok |-> FALSE, v |-> EmptyMap]

\* json.Unmarshal(raw, &map[string]map[string][]int)
UnmarshalNestedIntListMap(raw) ==
    IF raw.k = "object" /\ \A x \in DOMAIN raw.m : UnmarshalIntListMap(raw.m[x]).ok
    THEN [ok |-> TRUE,  v |-> [x \in DOMAIN raw.m |-> UnmarshalIntListMap(raw.m[x]).v]]
    ELSE [ok |-> FALSE, v |-> EmptyMap]

----------------------------------------------------------------------------
(* Stored bytes, MIME detection, image codecs *)

PngBytes  == <<"PNG1">>     \* a PNG image
TextBytes == <<"TXT">>      \* bytes that are no image
Truncated == <<"trunc">>    \* what a write that failed half way leaves behind

\* image.Decode succeeds on image bytes only
Decodable(bytes) == bytes # <<>> /\ bytes[1] \in {"PNG1", "png", "gif", "jpeg"}

\* mimetype.DetectReader on in-memory bytes: never an error
getMimeTypeFromContent(bytes) ==
    IF bytes = <<>> THEN "text/plain"
    ELSE CASE bytes[1] \in {"PNG1", "png"} -> "image/png"
           [] bytes[1] = "gif"             -> "image/gif"
           [] bytes[1] = "jpeg"            -> "image/jpeg"
           [] OTHER                        -> "text/plain"

getMimeTypeFromExtension(ext) ==
    CASE ext \in {<<".", "jpg">>, <<".", "jpeg">>} -> "image/jpeg"
      [] ext = <<".", "png">>                      -> "image/png"
      [] ext = <<".", "gif">>                      -> "image/gif"
      [] OTHER                                     -> "application/octet-stream"

\* an encoder switch that has the default case only
EncoderAlwaysJpeg(fileName) == "jpeg"

\* the switch on filepath.Ext(media.FileName) in the encoder goroutine
EncoderFor(fileName) ==
    CASE Ext(fileName) = <<".", "png">> -> "png"
      [] Ext(fileName) = <<".", "gif">> -> "gif"
      [] OTHER                          -> "jpeg"

\* the encoded bytes of original `bytes` transformed by `conversionName`
\* at `widthKey` ("" when the conversion's own size is used)
Encode(fileName, conversionName, widthKey, bytes) ==
    <<EncoderFor(fileName), conversionName, widthKey>> \o bytes

----------------------------------------------------------------------------
(* storage: DiskManager, S3Storage, LocalStorage *)

DiskNames == {"s3", "archive"}

\* the backend behind each logical name
LocalDisks == {"archive"}

Ev(t, d, p, n, ok) == [t |-> t, disk |-> d, path |-> p, name |-> n, ok |-> ok]

Log(W, e) == [W EXCEPT !.calls = Append(@, e)]

\* DiskManager.GetDisk
GetDisk(name) == name \in disks

\* S3Storage.Save: PutObject stores the whole object or nothing
S3Save(objs, path, bytes, out) ==
    IF out = "ok" THEN Put(objs, path, bytes) ELSE objs

\* LocalStorage.Save: os.Create truncates the file, then io.Copy fills it;
\* "err" fails at MkdirAll/Create, "copyErr" fails inside io.Copy (the reader
\* or the file reports an error part way)
LocalSave(objs, path, bytes, out) ==
    CASE out = "ok"      -> Put(objs, path, bytes)
      [] out = "copyErr" -> Put(objs, path, Truncated)
      [] OTHER           -> objs

\* Storage.Save on disk d; out \in {"ok", "err", "copyErr"}
Save(W, d, path, bytes, out) ==
    LET objs == IF d \in LocalDisks THEN LocalSave(W.store[d], path, bytes, out)
                ELSE S3Save(W.store[d], path, bytes, out)
    IN  Log([W EXCEPT !.store[d] = objs], Ev("Save", d, path, "", out = "ok"))

\* Storage.SaveFromURL: the backend downloads and then saves;
\* "fetchErr" is a failed download, after which nothing is written
SaveFromURL(W, d, path, bytes, out) ==
    LET objs == IF out = "fetchErr" THEN W.store[d]
                ELSE IF d \in LocalDisks THEN LocalSave(W.store[d], path, bytes, out)
                ELSE S3Save(W.store[d], path, bytes, out)
    IN  Log([W EXCEPT !.store[d] = objs], Ev("SaveFromURL", d, path, "", out = "ok"))

\* Storage.Exists
Exists(W, d, path) == path \in DOMAIN W.store[d]

\* Storage.Get succeeds when the object is there and the backend answers
GetOk(W, d, path, out) == out = "ok" /\ path \in DOMAIN W.store[d]

\* Storage.Delete: deleting a missing object is no error
Delete(W, d, path, out) ==
    Log(IF out = "ok" THEN [W EXCEPT !.store[d] = Drop(@, path)] ELSE W,
        Ev("Delete", d, path, "", out = "ok"))

\* a key as the string it is: its segments joined by "/"
RECURSIVE PathString(_)
PathString(path) ==
    IF path = <<>> THEN <<>>
    ELSE IF Len(path) = 1 THEN Head(path)
    ELSE Head(path) \o <<"/">> \o PathString(Tail(path))

\* S3Config of the "s3" disk and LocalConfig of the "archive" disk
S3Config    == [BaseURL |-> <<>>, PublicURLs |-> TRUE]
LocalConfig == [BaseURL |-> <<"http://files", "/">>]

\* S3Storage.URL of a storage built from S3Config cfg
S3URLOf(cfg, path) ==
    IF cfg.BaseURL # <<>> THEN cfg.BaseURL \o <<"/">> \o PathString(path)
    ELSE IF cfg.PublicURLs
    THEN <<"https://bucket.s3.region.amazonaws.com", "/">> \o PathString(path)
    ELSE <<>>

\* LocalStorage.URL of a storage built from LocalConfig cfg
LocalURLOf(cfg, path) ==
    IF cfg.BaseURL = <<>> THEN <<"/">> \o PathString(path)
    ELSE cfg.BaseURL \o PathString(path)

\* the URL methods of the two registered disks
S3URL(path) == S3URLOf(S3Config, path)

LocalURL(path) == LocalURLOf(LocalConfig, path)

\* Storage.URL on disk d
URL(d, path) == IF d \in LocalDisks THEN LocalURL(path) ELSE S3URL(path)

----------------------------------------------------------------------------
(* repository: GormMediaRepository *)

\* db.Create(media): the database assigns the next ID and the caller's
\* pointer reads it back
Created(W, m) == [W |-> [W EXCEPT !.repo = Append(@, m)], m |-> m, err |-> FALSE]

\* db.Save that merges the index it is given into the index of the row
UpdatedMergingIndex(W, m) ==
    [W |-> [W EXCEPT !.repo[m.ID] =
                [m EXCEPT !.GeneratedConversions =
                     JObj([x \in DOMAIN W.repo[m.ID].GeneratedConversions.m
                                  \cup DOMAIN m.GeneratedConversions.m |-> JBool(TRUE)])]],
     m |-> m, err |-> FALSE]

\* db.Save(media): the row of media.ID takes every field of the record
Updated(W, m) == [W |-> [W EXCEPT !.repo[m.ID] = m], m |-> m, err |-> FALSE]

\* Save: Create when ID is 0, else update.  Returns the world, the record as
\* the caller's pointer now reads, and the error.
RepoSave(W, m, ok) ==
    IF ~ok THEN [W |-> Log(W, Ev("RepoSave", "", <<>>, "", FALSE)), m |-> m, err |-> TRUE]
    ELSE IF m.ID = 0
    THEN Created(Log(W, Ev("RepoSave", "", <<>>, "", TRUE)),
                 [m EXCEPT !.ID = Len(W.repo) + 1])
    ELSE Updated(Log(W, Ev("RepoSave", "", <<>>, "", TRUE)), m)

----------------------------------------------------------------------------
(* conversion: ImagingTransformer registries *)

\* ImagingTransformer.conversions (RegisterConversion)
conversions == {"thumb", "preview"}

\* conversion.NewOptions(): the options a recipe is registered with
NewOptions == [Width |-> 0, Height |-> 0, Quality |-> 90, Format |-> "jpg",
               Fit |-> "contain"]

\* ImagingTransformer.responsiveConversions as RegisterResponsiveImageConversion
\* filled it when the application was set up
responsiveConversions ==
    [n \in {"thumb", "hero"} |->
        [Widths  |-> IF n = "thumb" THEN <<320, 640>> ELSE <<480>>,
         Options |-> NewOptions]]

\* the names callers pass to PerformConversions and to GenerateResponsiveImages;
\* "hero" is registered as a responsive recipe only
ConversionNames == {"thumb", "preview"}
ResponsiveNames == {"thumb", "hero"}

\* ImagingTransformer.Transform: unknown name is an error, and the
\* registered function may fail (out = "transformErr")
TransformOk(conversionName, out) ==
    conversionName \in conversions /\ out # "transformErr"

----------------------------------------------------------------------------
(* medialibrary: derived-artifact generation (conversions.go) *)

\* the per-name outcomes a caller's environment may produce
Outcomes == {"ok", "transformErr", "encodeErr", "storeErr"}

\* what Storage.Save sees for each outcome of the encode-then-store step:
\* a failed encoder closes the pipe with its error, so Save's read fails
SaveOut(out) ==
    CASE out = "ok"        -> "ok"
      [] out = "encodeErr" -> "copyErr"
      [] OTHER             -> "err"

Fail(W, m) == [W |-> W, m |-> m, err |-> TRUE]

\* LoadGeneratedConversions that never reads the column: every call starts
\* from an empty map
LoadGeneratedConversionsFresh(m) == EmptyMap

\* generatedConversions as the call starts: the parsed column, or a fresh map
\* when the column does not parse
LoadGeneratedConversions(m) ==
    LET parsed == UnmarshalBoolMap(m.GeneratedConversions)
    IN  IF parsed.ok THEN parsed.v ELSE EmptyMap

\* Stored that never sets generatedConversions[conversionName]
StoredUnmarked(acc, W, conversionName, ok) == [acc EXCEPT !.W = W]

\* after conversionsDisk.Save returned: generatedConversions[conversionName] = true
\* on success, `continue` on error.  acc is [W, gc], the world and the local map.
Stored(acc, W, conversionName, ok) ==
    IF ok THEN [W |-> W, gc |-> Put(acc.gc, conversionName, TRUE)]
    ELSE [acc EXCEPT !.W = W]

\* PerformConversionsStep without the `if generatedConversions[conversionName]`
\* skip: every requested name is transformed and stored again
PerformConversionsStepAlways(acc, m, bytes, conversionName, out) ==
    IF ~TransformOk(conversionName, out)
    THEN [acc EXCEPT !.W = Log(@, Ev("Transform", "", <<>>, conversionName, FALSE))]
    ELSE Stored(acc,
                Save(Log(acc.W, Ev("Transform", "", <<>>, conversionName, TRUE)),
                     m.ConversionsDisk, GetPathForConversion(m, conversionName),
                     Encode(m.FileName, conversionName, "", bytes), SaveOut(out)),
                conversionName, SaveOut(out) = "ok")

\* the body of the loop `for _, conversionName := range conversionNames`
PerformConversionsStep(acc, m, bytes, conversionName, out) ==
    IF Lookup(acc.gc, conversionName) THEN acc
    ELSE IF ~TransformOk(conversionName, out)
    THEN [acc EXCEPT !.W = Log(@, Ev("Transform", "", <<>>, conversionName, FALSE))]
    ELSE Stored(acc,
                Save(Log(acc.W, Ev("Transform", "", <<>>, conversionName, TRUE)),
                     m.ConversionsDisk, GetPathForConversion(m, conversionName),
                     Encode(m.FileName, conversionName, "", bytes), SaveOut(out)),
                conversionName, SaveOut(out) = "ok")

\* the loop with `break` where the code has `continue`: it stops at the first
\* name that was not stored
RECURSIVE PerformConversionsLoopBreak(_, _, _, _, _, _)
PerformConversionsLoopBreak(acc, m, bytes, conversionNames, outs, i) ==
    IF i > Len(conversionNames) THEN acc
    ELSE IF ~Lookup(PerformConversionsStep(acc, m, bytes, conversionNames[i],
                                           outs[i]).gc,
                    conversionNames[i])
    THEN PerformConversionsStep(acc, m, bytes, conversionNames[i], outs[i])
    ELSE PerformConversionsLoopBreak(
             PerformConversionsStep(acc, m, bytes, conversionNames[i], outs[i]),
             m, bytes, conversionNames, outs, i + 1)

RECURSIVE PerformConversionsLoop(_, _, _, _, _, _)
PerformConversionsLoop(acc, m, bytes, conversionNames, outs, i) ==
    IF i > Len(conversionNames) THEN acc
    ELSE PerformConversionsLoop(
             PerformConversionsStep(acc, m, bytes, conversionNames[i], outs[i]),
             m, bytes, conversionNames, outs, i + 1)

\* SaveGeneratedConversions that puts the new index in the caller's record
\* only once the repository has saved it
SaveGeneratedConversionsThenAssign(acc, m, ok) ==
    IF ok THEN RepoSave(acc.W, [m EXCEPT !.GeneratedConversions = MarshalBoolMap(acc.gc)], ok)
    ELSE RepoSave(acc.W, m, ok)

\* SaveGeneratedConversions that saves only an index that changed
SaveGeneratedConversionsIfChanged(acc, m, ok) ==
    IF MarshalBoolMap(acc.gc) = m.GeneratedConversions
    THEN [W |-> acc.W, m |-> m, err |-> FALSE]
    ELSE RepoSave(acc.W, [m EXCEPT !.GeneratedConversions = MarshalBoolMap(acc.gc)], ok)

\* media.GeneratedConversions = json.Marshal(generatedConversions), then
\* repository.Save(media), whose error is the call's error
SaveGeneratedConversions(acc, m, ok) ==
    RepoSave(acc.W, [m EXCEPT !.GeneratedConversions = MarshalBoolMap(acc.gc)], ok)

\* PerformConversions(ctx, media, conversionNames...): f names the backend
\* call that fails ("Get", "RepoSave") or "none"; outs[i] is the outcome of
\* the i-th name.  Returns the world, the caller's record and the error.
PerformConversions(W, m, conversionNames, f, outs) ==
    IF ~GetDisk(m.Disk) \/ ~GetDisk(m.ConversionsDisk) THEN Fail(W, m)
    ELSE IF ~GetOk(W, m.Disk, GetPath(m), IF f = "Get" THEN "err" ELSE "ok")
    THEN Fail(Log(W, Ev("Get", m.Disk, GetPath(m), "", FALSE)), m)
    ELSE IF ~Decodable(W.store[m.Disk][GetPath(m)])
    THEN Fail(Log(W, Ev("Get", m.Disk, GetPath(m), "", TRUE)), m)
    ELSE SaveGeneratedConversions(
             PerformConversionsLoop(
                 [W  |-> Log(W, Ev("Get", m.Disk, GetPath(m), "", TRUE)),
                  gc |-> LoadGeneratedConversions(m)],
                 m, W.store[m.Disk][GetPath(m)], conversionNames, outs, 1),
             m, f # "RepoSave")

\* responsiveImages as the call starts
LoadResponsiveImages(m) ==
    LET parsed == UnmarshalNestedBoolMap(m.ResponsiveImages)
    IN  IF parsed.ok THEN parsed.v ELSE EmptyMap

\* StoredWidth without the check of Save's error: the width is recorded
\* whatever Save returned
StoredWidthUnchecked(acc, W, conversionName, widthKey, ok) ==
    [W  |-> W,
     ri |-> [acc.ri EXCEPT ![conversionName] = Put(@, widthKey, TRUE)]]

\* after conversionsDisk.Save returned:
\* responsiveImages[conversionName][widthKey] = true on success.
\* acc is [W, ri], the world and the local map.
StoredWidth(acc, W, conversionName, widthKey, ok) ==
    IF ok THEN [W  |-> W,
                ri |-> [acc.ri EXCEPT ![conversionName] = Put(@, widthKey, TRUE)]]
    ELSE [acc EXCEPT !.W = W]

\* opts := responsiveConversion.Options; opts.Width = width.  Options is a
\* *Options and GetResponsiveImageConversions copies the map, not what the
\* pointers refer to: the assignment writes the registered recipe's options.
WidthAssigned(acc, conversionName, width) ==
    [acc EXCEPT !.W.recipes[conversionName].Options.Width = width]

\* the transform, encode and store of one width
ResponsiveWidthStored(acc, m, bytes, conversionName, width, out) ==
    IF ~TransformOk(conversionName, out)
    THEN [acc EXCEPT !.W = Log(@, Ev("Transform", "", <<>>, conversionName, FALSE))]
    ELSE StoredWidth(acc,
                     Save(Log(acc.W, Ev("Transform", "", <<>>, conversionName, TRUE)),
                          m.ConversionsDisk,
                          GetPathForResponsiveImage(m, conversionName, width),
                          Encode(m.FileName, conversionName, ToString(width), bytes),
                          SaveOut(out)),
                     conversionName, ToString(width), SaveOut(out) = "ok")

\* the body of `for _, width := range responsiveConversion.Widths`
ResponsiveWidthStep(acc, m, bytes, conversionName, width, out) ==
    IF Lookup(acc.ri[conversionName], ToString(width)) THEN acc
    ELSE ResponsiveWidthStored(WidthAssigned(acc, conversionName, width),
                               m, bytes, conversionName, width, out)

RECURSIVE ResponsiveWidthLoop(_, _, _, _, _, _, _)
ResponsiveWidthLoop(acc, m, bytes, conversionName, widths, outs, j) ==
    IF j > Len(widths) THEN acc
    ELSE ResponsiveWidthLoop(
             ResponsiveWidthStep(acc, m, bytes, conversionName, widths[j], outs[j]),
             m, bytes, conversionName, widths, outs, j + 1)

\* if _, ok := responsiveImages[conversionName]; !ok { ... = make(map[string]bool) }
WithEntry(acc, conversionName) ==
    IF conversionName \in DOMAIN acc.ri THEN acc
    ELSE [acc EXCEPT !.ri = Put(@, conversionName, EmptyMap)]

\* the body of `for _, conversionName := range conversionNames`
ResponsiveNameStep(acc, m, bytes, conversionName, outs) ==
    IF conversionName \notin DOMAIN acc.W.recipes THEN acc
    ELSE ResponsiveWidthLoop(WithEntry(acc, conversionName), m, bytes, conversionName,
                             acc.W.recipes[conversionName].Widths, outs, 1)

RECURSIVE ResponsiveNameLoop(_, _, _, _, _, _)
ResponsiveNameLoop(acc, m, bytes, conversionNames, outs, i) ==
    IF i > Len(conversionNames) THEN acc
    ELSE ResponsiveNameLoop(
             ResponsiveNameStep(acc, m, bytes, conversionNames[i], outs[i]),
             m, bytes, conversionNames, outs, i + 1)

\* media.ResponsiveImages = json.Marshal(responsiveImages), then repository.Save
SaveResponsiveImages(acc, m, ok) ==
    RepoSave(acc.W, [m EXCEPT !.ResponsiveImages = MarshalNestedBoolMap(acc.ri)], ok)

\* GenerateResponsiveImages(ctx, media, conversionNames...): outs[i][j] is
\* the outcome of the j-th width of the i-th name
GenerateResponsiveImages(W, m, conversionNames, f, outs) ==
    IF ~GetDisk(m.Disk) \/ ~GetDisk(m.ConversionsDisk) THEN Fail(W, m)
    ELSE IF ~GetOk(W, m.Disk, GetPath(m), IF f = "Get" THEN "err" ELSE "ok")
    THEN Fail(Log(W, Ev("Get", m.Disk, GetPath(m), "", FALSE)), m)
    ELSE IF ~Decodable(W.store[m.Disk][GetPath(m)])
    THEN Fail(Log(W, Ev("Get", m.Disk, GetPath(m), "", TRUE)), m)
    ELSE SaveResponsiveImages(
             ResponsiveNameLoop(
                 [W  |-> Log(W, Ev("Get", m.Disk, GetPath(m), "", TRUE)),
                  ri |-> LoadResponsiveImages(m)],
                 m, W.store[m.Disk][GetPath(m)], conversionNames, outs, 1),
             m, f # "RepoSave")

----------------------------------------------------------------------------
(* medialibrary: Options (options.go) and NewDefaultMediaLibrary *)

Opt(k, str, flag, list, num) ==
    [k |-> k, s |-> str, b |-> flag, l |-> list, i |-> num, p |-> EmptyMap]

WithDefaultDisk(d)              == Opt("DefaultDisk", d, FALSE, <<>>, 0)
WithDisk(d)                     == WithDefaultDisk(d)
WithConversionsDisk(d)          == Opt("ConversionsDisk", d, FALSE, <<>>, 0)
WithAutoGenerateConversions(b)  == Opt("AutoGenerateConversions", "", b, <<>>, 0)
WithPerformConversions(l)       == Opt("PerformConversions", "", FALSE, l, 0)
WithGenerateResponsiveImages(l) == Opt("GenerateResponsiveImages", "", FALSE, l, 0)
WithName(n)                     == Opt("Name", "", FALSE, n, 0)
WithModel(t, id)                == Opt("Model", t, FALSE, <<>>, id)
WithCustomProperties(props)     == [Opt("CustomProperties", "", FALSE, <<>>, 0) EXCEPT !.p = props]

\* `for k, v := range properties { o.CustomProperties[k] = v }`
Merged(into, properties) ==
    [x \in (DOMAIN into) \cup (DOMAIN properties) |->
        IF x \in DOMAIN properties THEN properties[x] ELSE into[x]]

\* opt(opts) for one functional option
ApplyOption(o, opt) ==
    CASE opt.k = "DefaultDisk"              -> [o EXCEPT !.DefaultDisk = opt.s]
      [] opt.k = "ConversionsDisk"          -> [o EXCEPT !.ConversionsDisk = opt.s]
      [] opt.k = "AutoGenerateConversions"  -> [o EXCEPT !.AutoGenerateConversions = opt.b]
      [] opt.k = "PerformConversions"       -> [o EXCEPT !.PerformConversions = opt.l]
      [] opt.k = "GenerateResponsiveImages" -> [o EXCEPT !.GenerateResponsiveImages = opt.l]
      [] opt.k = "Name"                     -> [o EXCEPT !.Name = opt.l]
      [] opt.k = "Model"                    -> [o EXCEPT !.ModelType = opt.s,
                                                          !.ModelID = opt.i]
      [] opt.k = "CustomProperties"         -> [o EXCEPT !.CustomProperties =
                                                             Merged(@, opt.p)]
      [] OTHER                              -> o

\* for _, opt := range options { opt(opts) }
RECURSIVE ApplyOptions(_, _)
ApplyOptions(o, options) ==
    IF options = <<>> THEN o
    ELSE ApplyOptions(ApplyOption(o, Head(options)), Tail(options))

\* NewDefaultMediaLibrary(diskManager, transformer, repository): m.defaultOptions
defaultOptions ==
    [DefaultDisk |-> "s3", ConversionsDisk |-> "s3",
     AutoGenerateConversions |-> FALSE,
     PerformConversions |-> <<>>, GenerateResponsiveImages |-> <<>>,
     CustomProperties |-> EmptyMap,
     ModelType |-> "", ModelID |-> 0, Name |-> <<>>]

\* NewDefaultMediaLibrary(diskManager, transformer, repository, options...):
\* the options applied in order to the same literal
NewDefaultMediaLibrary(options) == ApplyOptions(defaultOptions, options)

\* opts := &Options{...}, the fields the ingestion variants copy from the
\* library's options `defaults`, with the copy of their custom properties;
\* then the per-call options in order.  diskName is what the call puts in
\* DefaultDisk (the library's default disk, or the targetDisk argument).
CallOptionsOf(defaults, diskName, options) ==
    ApplyOptions([DefaultDisk |-> diskName,
                  ConversionsDisk |-> defaults.ConversionsDisk,
                  AutoGenerateConversions |-> defaults.AutoGenerateConversions,
                  PerformConversions |-> defaults.PerformConversions,
                  GenerateResponsiveImages |-> defaults.GenerateResponsiveImages,
                  CustomProperties |-> defaults.CustomProperties,
                  ModelType |-> "", ModelID |-> 0, Name |-> <<>>],
                 options)

\* the effective options of a call on the library of this model
CallOptions(diskName, options) == CallOptionsOf(defaultOptions, diskName, options)

\* the option lists the callers of this model pass
OptionLists ==
    { <<>>,
      <<WithDisk("archive"), WithAutoGenerateConversions(TRUE),
        WithPerformConversions(<<"thumb">>), WithGenerateResponsiveImages(<<"thumb">>)>>,
      <<WithDisk("ghost"), WithConversionsDisk("ghost"), WithName(<<"cover">>),
        WithModel("posts", 1)>>,
      <<WithPerformConversions(<<"thumb">>), WithGenerateResponsiveImages(<<"thumb">>)>>,
      <<WithAutoGenerateConversions(TRUE)>> }

----------------------------------------------------------------------------
(* models.Media *)

\* a generator that hands out the same UUID every time
RepeatedUUID == <<"uuid", "1">>

\* uuid.NewV4(): a value no earlier call returned
NewUUID == <<"uuid", ToString(uuidSeq + 1)>>

\* &models.Media{...} as the ingestion variants build it
NewMedia(opts, collection, baseName, diskName, mimeType, size) ==
    [ID |-> 0, UUID |-> NewUUID,
     ModelType |-> opts.ModelType, ModelID |-> opts.ModelID,
     CollectionName |-> collection,
     Name |-> opts.Name, FileName |-> baseName, MimeType |-> mimeType,
     Disk |-> diskName, ConversionsDisk |-> opts.ConversionsDisk, Size |-> size,
     GeneratedConversions |-> EmptyObject, ResponsiveImages |-> EmptyObject]

\* DisplayName that keeps the extension
DisplayNameWhole(opts, baseName) ==
    IF opts.Name = <<>> THEN [opts EXCEPT !.Name = baseName] ELSE opts

\* opts.Name when given, else the base name without its extension
DisplayName(opts, baseName) ==
    IF opts.Name = <<>> THEN [opts EXCEPT !.Name = TrimSuffix(baseName, Ext(baseName))]
    ELSE opts

----------------------------------------------------------------------------
(* medialibrary: ingestion (add_operations.go, disk_operations.go) *)

\* the URLs, local files and backend objects the callers of this model ingest
PhotoName == <<"photo", ".", "png">>
NotesName == <<"notes">>

URLs ==
    { [valid |-> TRUE,  path |-> <<<<>>, <<"img">>, PhotoName>>, bytes |-> PngBytes],
      [valid |-> TRUE,  path |-> <<<<>>, NotesName>>,            bytes |-> TextBytes],
      [valid |-> FALSE, path |-> <<>>,                           bytes |-> <<>>] }

LocalFiles ==
    { [exists |-> TRUE,  path |-> <<<<>>, <<"tmp">>, PhotoName>>, bytes |-> PngBytes],
      [exists |-> FALSE, path |-> <<<<>>, <<"tmp">>, NotesName>>, bytes |-> <<>>] }

InboxPhoto == <<<<"inbox">>, PhotoName>>
InboxGone  == <<<<"inbox">>, NotesName>>

Collections == {"gallery"}

NoMedia == [ID |-> 0]

Ok(W, m) == [W |-> W, m |-> m, err |-> FALSE]

\* the outcome the target backend's Save or SaveFromURL has under failure f
WriteOut(f) ==
    CASE f = "Fetch"    -> "fetchErr"
      [] f = "Save"     -> "err"
      [] f = "SaveCopy" -> "copyErr"
      [] OTHER          -> "ok"

\* Ingested that returns the error of the last generation call
IngestedWithError(r) == r

\* the generation calls return; their errors were only logged, the
\* ingestion returns the record
Ingested(r) == Ok(r.W, r.m)

\* the ingestion called generation method `name`, which returned r: the log
\* notes the call and whether it returned an error
Invoked(r, name) == [r EXCEPT !.W = Log(@, Ev(name, "", <<>>, "", ~r.err))]

\* the GenerateResponsiveImages call that ends every ingestion variant, after
\* the PerformConversions call returned r.  g is [pf, po, rf, ro]: the failing
\* calls and outcomes of the two generation calls.
GenerateResponsive(r, opts, responsiveNeedsAuto, g) ==
    Ingested(IF (~responsiveNeedsAuto \/ opts.AutoGenerateConversions)
                 /\ Len(opts.GenerateResponsiveImages) > 0
             THEN Invoked(GenerateResponsiveImages(r.W, r.m,
                                                   opts.GenerateResponsiveImages,
                                                   g.rf, g.ro),
                          "GenerateResponsiveImages")
             ELSE r)

\* the PerformConversions call that ends every ingestion variant
Generate(W, m, opts, responsiveNeedsAuto, g) ==
    GenerateResponsive(IF opts.AutoGenerateConversions /\ Len(opts.PerformConversions) > 0
                       THEN Invoked(PerformConversions(W, m, opts.PerformConversions,
                                                       g.pf, g.po),
                                    "PerformConversions")
                       ELSE Ok(W, m),
                       opts, responsiveNeedsAuto, g)

\* AddMediaFromURL after the second repository.Save returned s
URLUpdated(s, opts, g) ==
    IF s.err THEN Fail(s.W, NoMedia) ELSE Generate(s.W, s.m, opts, FALSE, g)

\* AddMediaFromURL after the stored object was read back: size and MIME type
\* come from the content, then the record is saved again
URLRead(W, m, fileBytes, opts, f, g) ==
    URLUpdated(RepoSave(W, [m EXCEPT !.Size = Len(fileBytes),
                                     !.MimeType = getMimeTypeFromContent(fileBytes)],
                        f # "RepoSave2"),
               opts, g)

\* AddMediaFromURL after disk.Exists answered
URLChecked(W, m, opts, f, g) ==
    IF ~GetOk(W, m.Disk, GetPath(m), IF f = "Get" THEN "err" ELSE "ok")
    THEN Fail(Log(W, Ev("Get", m.Disk, GetPath(m), "", FALSE)), NoMedia)
    ELSE URLRead(Log(W, Ev("Get", m.Disk, GetPath(m), "", TRUE)), m,
                 W.store[m.Disk][GetPath(m)], opts, f, g)

\* AddMediaFromURL after disk.SaveFromURL returned
URLStored(W, m, opts, f, g) ==
    IF WriteOut(f) # "ok" THEN Fail(W, NoMedia)
    ELSE IF f = "Exists" \/ ~Exists(W, m.Disk, GetPath(m))
    THEN Fail(Log(W, Ev("Exists", m.Disk, GetPath(m), "", f # "Exists")), NoMedia)
    ELSE URLChecked(Log(W, Ev("Exists", m.Disk, GetPath(m), "", TRUE)), m, opts, f, g)

\* AddMediaFromURL after the first repository.Save returned s
URLSaved(s, u, opts, f, g) ==
    IF s.err THEN Fail(s.W, NoMedia)
    ELSE URLStored(SaveFromURL(s.W, s.m.Disk, GetPath(s.m), u.bytes, WriteOut(f)),
                   s.m, opts, f, g)

\* AddMediaFromURL once the options are applied
URLPrepared(W, u, collection, opts, f, g) ==
    IF ~GetDisk(opts.DefaultDisk) THEN Fail(W, NoMedia)
    ELSE URLSaved(RepoSave(W, NewMedia(opts, collection, Base(u.path), opts.DefaultDisk,
                                       getMimeTypeFromExtension(Ext(Base(u.path))), 0),
                           f # "RepoSave"),
                  u, opts, f, g)

\* AddMediaFromURL(ctx, urlStr, collection, options...): f names the failing
\* backend call, or "none"
AddMediaFromURL(W, u, collection, options, f, g) ==
    IF ~u.valid THEN Fail(W, NoMedia)
    ELSE URLPrepared(W, u, collection,
                     DisplayName(CallOptions(defaultOptions.DefaultDisk, options),
                                 Base(u.path)),
                     f, g)

\* AddMediaFromURLToModel(ctx, urlStr, modelType, modelID, collection, options...):
\* options = append([]Option{WithModel(modelType, modelID)}, options...)
AddMediaFromURLToModel(W, u, modelType, modelID, collection, options, f, g) ==
    AddMediaFromURL(W, u, collection, <<WithModel(modelType, modelID)>> \o options, f, g)

\* AddMediaFromDisk and AddMediaFromDiskToDisk after disk.Save returned
DiskStored(W, m, opts, f, g) ==
    IF WriteOut(f) # "ok" THEN Fail(W, NoMedia) ELSE Generate(W, m, opts, TRUE, g)

\* AddMediaFromDisk and AddMediaFromDiskToDisk after repository.Save returned s
DiskSaved(s, bytes, opts, f, g) ==
    IF s.err THEN Fail(s.W, NoMedia)
    ELSE DiskStored(Save(s.W, s.m.Disk, GetPath(s.m), bytes, WriteOut(f)),
                    s.m, opts, f, g)

\* AddMediaFromDisk once the options are applied
DiskPrepared(W, file, collection, opts, f, g) ==
    IF ~GetDisk(opts.DefaultDisk) THEN Fail(W, NoMedia)
    ELSE DiskSaved(RepoSave(W, NewMedia(opts, collection, Base(file.path),
                                        opts.DefaultDisk,
                                        getMimeTypeFromContent(file.bytes),
                                        Len(file.bytes)),
                            f # "RepoSave"),
                   file.bytes, opts, f, g)

\* AddMediaFromDisk(ctx, filePath, collection, options...)
AddMediaFromDisk(W, file, collection, options, f, g) ==
    IF ~file.exists THEN Fail(W, NoMedia)
    ELSE DiskPrepared(W, file, collection,
                      DisplayName(CallOptions(defaultOptions.DefaultDisk, options),
                                  Base(file.path)),
                      f, g)

\* AddMediaFromDiskToDisk after the source object was read
DiskToDiskRead(W, fileContent, baseName, targetDisk, collection, opts, f, g) ==
    DiskSaved(RepoSave(W, NewMedia(opts, collection, baseName, targetDisk,
                                   getMimeTypeFromContent(fileContent),
                                   Len(fileContent)),
                       f # "RepoSave"),
              fileContent, opts, f, g)

\* AddMediaFromDiskToDisk after srcDisk.Exists answered
DiskToDiskChecked(W, sourceDisk, sourcePath, targetDisk, collection, options, f, g) ==
    IF ~GetOk(W, sourceDisk, sourcePath, IF f = "Get" THEN "err" ELSE "ok")
    THEN Fail(Log(W, Ev("Get", sourceDisk, sourcePath, "", FALSE)), NoMedia)
    ELSE IF ~GetDisk(targetDisk)
    THEN Fail(Log(W, Ev("Get", sourceDisk, sourcePath, "", TRUE)), NoMedia)
    ELSE DiskToDiskRead(Log(W, Ev("Get", sourceDisk, sourcePath, "", TRUE)),
                        W.store[sourceDisk][sourcePath], Base(sourcePath), targetDisk,
                        collection,
                        DisplayName(CallOptions(targetDisk, options), Base(sourcePath)),
                        f, g)

\* AddMediaFromDiskToDisk(ctx, sourceDisk, sourcePath, targetDisk, collection, options...)
AddMediaFromDiskToDisk(W, sourceDisk, sourcePath, targetDisk, collection, options, f, g) ==
    IF ~GetDisk(sourceDisk) THEN Fail(W, NoMedia)
    ELSE IF f = "Exists" \/ ~Exists(W, sourceDisk, sourcePath)
    THEN Fail(Log(W, Ev("Exists", sourceDisk, sourcePath, "", f # "Exists")), NoMedia)
    ELSE DiskToDiskChecked(Log(W, Ev("Exists", sourceDisk, sourcePath, "", TRUE)),
                           sourceDisk, sourcePath, targetDisk, collection, options, f, g)

----------------------------------------------------------------------------
(* medialibrary: copy and move (copy_move_operations.go) *)

\* CopiedMedia that keeps the source's ID
CopiedMediaSameID(m, targetDisk, mimeType, fileContent) ==
    [m EXCEPT !.UUID = NewUUID, !.MimeType = mimeType,
              !.Disk = targetDisk, !.Size = Len(fileContent)]

\* CopiedMedia that starts the copy with an empty conversions index
CopiedMediaFreshIndex(m, targetDisk, mimeType, fileContent) ==
    [m EXCEPT !.ID = 0, !.UUID = NewUUID, !.MimeType = mimeType,
              !.Disk = targetDisk, !.Size = Len(fileContent),
              !.GeneratedConversions = EmptyObject]

\* copiedMedia := &models.Media{...}: every descriptive field of the source,
\* a fresh UUID, the target disk and the size of the bytes read
CopiedMedia(m, targetDisk, mimeType, fileContent) ==
    [m EXCEPT !.ID = 0, !.UUID = NewUUID, !.MimeType = mimeType,
              !.Disk = targetDisk, !.Size = Len(fileContent)]

\* Written without the check of Save's error: the record is returned
\* whatever the write did
WrittenUnchecked(W, m, f) == Ok(W, m)

\* after targetDiskStorage.Save returned
Written(W, m, f) ==
    IF WriteOut(f) # "ok" THEN Fail(W, NoMedia) ELSE Ok(W, m)

\* CopySaved without the check of the repository's error: the bytes are
\* written whether or not the record was saved
CopySavedUnchecked(s, fileContent, f) ==
    Written(Save(s.W, s.m.Disk, GetPath(s.m), fileContent, WriteOut(f)), s.m, f)

\* after repository.Save(copiedMedia) returned s: the bytes are written under
\* the new record's path
CopySaved(s, fileContent, f) ==
    IF s.err THEN Fail(s.W, NoMedia)
    ELSE Written(Save(s.W, s.m.Disk, GetPath(s.m), fileContent, WriteOut(f)), s.m, f)

\* after sourceDiskStorage.Exists answered: the source is read and the new
\* record is saved
SourceChecked(W, m, targetDisk, f, detectMime) ==
    IF ~GetOk(W, m.Disk, GetPath(m), IF f = "Get" THEN "err" ELSE "ok")
    THEN Fail(Log(W, Ev("Get", m.Disk, GetPath(m), "", FALSE)), NoMedia)
    ELSE CopySaved(RepoSave(Log(W, Ev("Get", m.Disk, GetPath(m), "", TRUE)),
                            CopiedMedia(m, targetDisk,
                                        IF detectMime
                                        THEN getMimeTypeFromContent(W.store[m.Disk][GetPath(m)])
                                        ELSE m.MimeType,
                                        W.store[m.Disk][GetPath(m)]),
                            f # "RepoSave"),
                   W.store[m.Disk][GetPath(m)], f)

\* Transfer without the lookup of the two disks: the copy goes on whether or
\* not they are registered
TransferAnyDisk(W, m, targetDisk, f, detectMime) ==
    IF f = "Exists" \/ ~Exists(W, m.Disk, GetPath(m))
    THEN Fail(Log(W, Ev("Exists", m.Disk, GetPath(m), "", f # "Exists")), NoMedia)
    ELSE SourceChecked(Log(W, Ev("Exists", m.Disk, GetPath(m), "", TRUE)),
                       m, targetDisk, f, detectMime)

\* the steps CopyMediaToDisk and MoveMediaToDisk share: both disks are looked
\* up, the source is checked and read, the new record is saved and the bytes
\* are written under the new record's path
Transfer(W, m, targetDisk, f, detectMime) ==
    IF ~GetDisk(m.Disk) \/ ~GetDisk(targetDisk) THEN Fail(W, NoMedia)
    ELSE IF f = "Exists" \/ ~Exists(W, m.Disk, GetPath(m))
    THEN Fail(Log(W, Ev("Exists", m.Disk, GetPath(m), "", f # "Exists")), NoMedia)
    ELSE SourceChecked(Log(W, Ev("Exists", m.Disk, GetPath(m), "", TRUE)),
                       m, targetDisk, f, detectMime)

\* CopyMediaToDisk(ctx, media, targetDisk)
CopyMediaToDisk(W, m, targetDisk, f) == Transfer(W, m, targetDisk, f, FALSE)

\* SourceDeleted without the check of Delete's error: the moved record is
\* returned whatever Delete did
SourceDeletedUnchecked(W, moved, f) == Ok(W, moved)

\* after sourceDiskStorage.Delete returned
SourceDeleted(W, moved, f) ==
    IF f = "Delete" THEN Fail(W, NoMedia) ELSE Ok(W, moved)

\* Moved without the Delete of the source object
MovedKeepingSource(r, m, f) == r

\* MoveMediaToDisk after the new record and its bytes are in place (r):
\* the source object is deleted
Moved(r, m, f) ==
    IF r.err THEN r
    ELSE SourceDeleted(Delete(r.W, m.Disk, GetPath(m),
                              IF f = "Delete" THEN "err" ELSE "ok"),
                       r.m, f)

\* MoveMediaToDisk(ctx, media, targetDisk): the copy with the MIME type
\* detected from the content, then the Delete of the source object
MoveMediaToDisk(W, m, targetDisk, f) ==
    Moved(Transfer(W, m, targetDisk, f, TRUE), m, f)

----------------------------------------------------------------------------
(* medialibrary: URL resolution *)

\* GetURLForMedia that answers for objects in storage only
GetURLForMediaIfStored(m) ==
    IF m = NoMedia THEN <<>>
    ELSE IF ~GetDisk(m.Disk) THEN <<>>
    ELSE IF GetPath(m) \notin DOMAIN store[m.Disk] THEN <<>>
    ELSE URL(m.Disk, GetPath(m))

\* GetURLForMedia that does not test its argument: a nil dereference, the
\* call panics
GetURLForMediaUnguarded(m) ==
    IF m = NoMedia THEN <<"panic">>
    ELSE IF ~GetDisk(m.Disk) THEN <<>>
    ELSE URL(m.Disk, GetPath(m))

\* GetURLForMedia(media); NoMedia is the nil record
GetURLForMedia(m) ==
    IF m = NoMedia THEN <<>>
    ELSE IF ~GetDisk(m.Disk) THEN <<>>
    ELSE URL(m.Disk, GetPath(m))

\* GetURLForMediaConversion without the look into the index
GetURLForMediaConversionUnchecked(m, conversionName) ==
    IF ~GetDisk(m.ConversionsDisk) THEN <<>>
    ELSE URL(m.ConversionsDisk, GetPathForConversion(m, conversionName))

\* GetURLForMediaConversion once the record is known not to be nil
ConversionURL(m, conversionName, parsed) ==
    IF ~parsed.ok THEN <<>>
    ELSE IF ~Lookup(parsed.v, conversionName) THEN <<>>
    ELSE IF ~GetDisk(m.ConversionsDisk) THEN <<>>
    ELSE URL(m.ConversionsDisk, GetPathForConversion(m, conversionName))

\* GetURLForMediaConversion(media, conversionName)
GetURLForMediaConversion(m, conversionName) ==
    IF m = NoMedia THEN <<>>
    ELSE ConversionURL(m, conversionName, UnmarshalBoolMap(m.GeneratedConversions))

\* `for _, w := range widths { if w == width { found = true } }`
Found(widths, width) == \E i \in 1..Len(widths) : widths[i] = width

\* GetURLForResponsiveImage once responsiveImages[conversionName]["widths"]
\* is known to be there
ResponsiveURL(m, conversionName, width, widths) ==
    IF ~Found(widths, width) THEN <<>>
    ELSE IF ~GetDisk(m.ConversionsDisk) THEN <<>>
    ELSE URL(m.ConversionsDisk, GetPathForResponsiveImage(m, conversionName, width))

\* GetURLForResponsiveImage once the column is parsed into
\* map[string]map[string][]int
ResponsiveURLIn(m, conversionName, width, parsed) ==
    IF ~parsed.ok THEN <<>>
    ELSE IF conversionName \notin DOMAIN parsed.v THEN <<>>
    ELSE IF "widths" \notin DOMAIN parsed.v[conversionName] THEN <<>>
    ELSE ResponsiveURL(m, conversionName, width, parsed.v[conversionName]["widths"])

\* GetURLForResponsiveImage(media, conversionName, width)
GetURLForResponsiveImage(m, conversionName, width) ==
    IF m = NoMedia THEN <<>>
    ELSE ResponsiveURLIn(m, conversionName, width,
                         UnmarshalNestedIntListMap(m.ResponsiveImages))

\* GetMediaUrl, GetMediaConversionUrl and GetMediaResponsiveImageUrl: each
\* body repeats, statement by statement, the method it is an alias of
GetMediaUrl(m) == GetURLForMedia(m)

GetMediaConversionUrl(m, conversionName) == GetURLForMediaConversion(m, conversionName)

GetMediaResponsiveImageUrl(m, conversionName, width) ==
    GetURLForResponsiveImage(m, conversionName, width)

----------------------------------------------------------------------------
(* The state machine *)

World == [store |-> store, repo |-> repo, calls |-> <<>>, recipes |-> recipes]

\* what a call was given, as far as the properties need it: the faults of its
\* arguments (a malformed URL, a local file that cannot be opened, a source
\* object that does not exist, a disk name that is not registered), the
\* effective generation options and the name the options gave
Input(faults, opts) ==
    [faults |-> faults, auto |-> opts.AutoGenerateConversions,
     conv |-> opts.PerformConversions, resp |-> opts.GenerateResponsiveImages,
     name |-> opts.Name]

NoInput == Input({}, defaultOptions)

Fault(cond, label) == IF cond THEN {label} ELSE {}

Op(op, id, names, target, err, ret, url) ==
    [op |-> op, id |-> id, names |-> names, target |-> target,
     err |-> err, ret |-> ret, url |-> url, input |-> NoInput]

\* between two operations: no call is in progress and none has just returned
NoOp == Op("idle", 0, <<>>, "", FALSE, 0, <<>>)

Idle == last = NoOp

\* the goroutines that call PerformConversions at the same time
Threads == 1..MaxThreads

\* a goroutine's PerformConversions call: where it is (pc), the record it was
\* handed (m), its arguments (names), the index of the next name (i), its
\* local generatedConversions map (gc), the backend calls it issued (log),
\* whether its context was cancelled, and the error it returned
Call(pc, m, names, i, gc, log, cancelled, err) ==
    [pc |-> pc, m |-> m, names |-> names, i |-> i, gc |-> gc, log |-> log,
     cancelled |-> cancelled, err |-> err]

NoCall == Call("idle", NoMedia, <<>>, 0, EmptyMap, <<>>, FALSE, FALSE)

\* the Storage values the callers of the DiskManager register
Storages == {"S3Storage", "LocalStorage"}

\* the nil Storage
NoStorage == "nil"

\* a goroutine's DiskManager call: where it is (pc), the method (op) and its
\* arguments (name, storage), what it returned (ret), and what the registry
\* held under name while it looked (seen)
Caller(pc, op, name, storage, ret, seen) ==
    [pc |-> pc, op |-> op, name |-> name, storage |-> storage, ret |-> ret, seen |-> seen]

\* what GetDisk and HasDisk return: the storage (nil for HasDisk and for a
\* name that is not there) and whether the name was found
Answer(storage, ok) == [storage |-> storage, ok |-> ok]

NoCaller == Caller("idle", "", "", NoStorage, Answer(NoStorage, FALSE), {})

\* the disks the application registered when it was set up
RegisteredDisks == [name \in DiskNames |->
                       IF name \in LocalDisks THEN "LocalStorage" ELSE "S3Storage"]

\* sync.RWMutex: the goroutine holding the write lock (0: none) and the
\* goroutines holding the read lock
Unlocked == [w |-> 0, r |-> {}]

\* no function evaluated yet
NoProbe == [fn |-> "none"]

\* the encode-then-store steps of one call, by their position in the loop
Steps == 1..MaxNames

\* an encoder goroutine: where it is ("none": not started, "encoding",
\* "writing": inside pw.Write, "done": returned), the Write calls it still
\* has to make, and whether its encoder reports an error before the last
EncoderTask(pc, left, fail) == [pc |-> pc, left |-> left, fail |-> fail]

\* io.Pipe(): whether a written chunk waits for a reader, and how the write
\* end was closed ("open", "eof" by Close, "err" by CloseWithError); the
\* code never closes the read end
Pipe(pending, closed) == [pending |-> pending, closed |-> closed]

\* no generation call is being followed
NoEncoding ==
    [pc |-> "idle", method |-> "", n |-> 0, i |-> 0,
     task |-> [k \in Steps |-> EncoderTask("none", 0, FALSE)],
     pipe |-> [k \in Steps |-> Pipe(FALSE, "open")],
     save |-> [pc |-> "none", backend |-> NoStorage],
     errs |-> <<>>]

Init ==
    /\ threads = [t \in Threads |-> NoCall]
    /\ dm = [disks |-> RegisteredDisks, mu |-> Unlocked, writing |-> {}]
    /\ callers = [t \in Threads |-> NoCaller]
    /\ probe = NoProbe
    /\ recipes = responsiveConversions
    /\ enc = NoEncoding
    /\ healthy = FALSE
    /\ skipped = {}
    /\ disks = DiskNames
    /\ store = [d \in DiskNames |->
                   IF d = "archive" THEN Put(EmptyMap, InboxPhoto, PngBytes) ELSE EmptyMap]
    /\ repo = <<>>
    /\ media = EmptyMap
    /\ uuidSeq = 0
    /\ calls = <<>>
    /\ last = NoOp

\* the world after an operation returned r; a record that was saved took a UUID
Commit(r) ==
    /\ store' = r.W.store
    /\ repo' = r.W.repo
    /\ calls' = r.W.calls
    /\ recipes' = r.W.recipes
    /\ uuidSeq' = IF Len(r.W.repo) > Len(repo) THEN uuidSeq + 1 ELSE uuidSeq

\* the record an ingestion, copy or move returns is now in the caller's hands
Returned(r) ==
    media' = IF r.err THEN media ELSE Put(media, r.m.ID, r.m)

\* the failing calls and outcomes of the generation calls inside an ingestion
GenScripts(options, f) ==
    LET opts == CallOptions("", options)
        np   == IF f = "none" THEN Len(opts.PerformConversions) ELSE 0
        nr   == IF f = "none" THEN Len(opts.GenerateResponsiveImages) ELSE 0
    IN  [pf : IF np = 0 THEN {"none"} ELSE {"none", "Get", "RepoSave"},
         po : [1..np -> Outcomes],
         rf : IF nr = 0 THEN {"none"} ELSE {"none", "RepoSave"},
         ro : [1..nr -> [1..2 -> {"ok", "storeErr"}]]]

IngestFailures == {"none", "RepoSave", "Fetch", "Save", "SaveCopy", "Exists", "Get",
                   "RepoSave2"}

\* an ingestion, copy or move returned r to the caller
Done(r, op, id, target, input) ==
    /\ Commit(r)
    /\ Returned(r)
    /\ last' = [Op(op, id, <<>>, target, r.err, r.m.ID, <<>>) EXCEPT !.input = input]
    /\ UNCHANGED <<disks, threads, healthy, skipped, dm, callers, probe, enc>>

\* a generation call on the caller's record id returned r
Regenerated(r, op, id, names) ==
    /\ Commit(r)
    /\ media' = [media EXCEPT ![id] = r.m]
    /\ last' = Op(op, id, names, "", r.err, id, <<>>)
    /\ UNCHANGED <<disks, threads, healthy, dm, callers, probe, enc>>

CallAddMediaFromURL ==
    /\ Idle
    /\ Len(repo) < MaxIngested
    /\ \E u \in URLs, collection \in Collections, options \in OptionLists,
          f \in IngestFailures :
         \E g \in GenScripts(options, f) :
            Done(AddMediaFromURL(World, u, collection, options, f, g),
                 "AddMediaFromURL", 0, "",
                 Input(Fault(~u.valid, "malformed URL")
                          \cup Fault(~GetDisk(CallOptions(defaultOptions.DefaultDisk,
                                                          options).DefaultDisk),
                                     "unregistered disk"),
                       CallOptions(defaultOptions.DefaultDisk, options)))

CallAddMediaFromDisk ==
    /\ Idle
    /\ Len(repo) < MaxIngested
    /\ \E file \in LocalFiles, collection \in Collections, options \in OptionLists,
          f \in {"none", "RepoSave", "Save", "SaveCopy"} :
         \E g \in GenScripts(options, f) :
            Done(AddMediaFromDisk(World, file, collection, options, f, g),
                 "AddMediaFromDisk", 0, "",
                 Input(Fault(~file.exists, "unopenable file")
                          \cup Fault(~GetDisk(CallOptions(defaultOptions.DefaultDisk,
                                                          options).DefaultDisk),
                                     "unregistered disk"),
                       CallOptions(defaultOptions.DefaultDisk, options)))

CallAddMediaFromDiskToDisk ==
    /\ Idle
    /\ Len(repo) < MaxIngested
    /\ \E sourceDisk \in DiskNames, sourcePath \in {InboxPhoto, InboxGone},
          targetDisk \in DiskNames, collection \in Collections,
          options \in OptionLists,
          f \in {"none", "Exists", "Get", "RepoSave", "Save", "SaveCopy"} :
         \E g \in GenScripts(options, f) :
            Done(AddMediaFromDiskToDisk(World, sourceDisk, sourcePath, targetDisk,
                                        collection, options, f, g),
                 "AddMediaFromDiskToDisk", 0, targetDisk,
                 Input(Fault(~GetDisk(sourceDisk) \/ ~GetDisk(targetDisk),
                             "unregistered disk")
                          \cup Fault(~Exists(World, sourceDisk, sourcePath),
                                     "no source object"),
                       CallOptions(targetDisk, options)))

\* the repository holds at most MaxRecords rows: a copy or a move that would
\* save one more is not taken
Within(r) == Len(r.W.repo) <= MaxRecords

\* what a copy or a move of record m to targetDisk was given
TransferInput(m, targetDisk) ==
    Input(Fault(~GetDisk(m.Disk) \/ ~GetDisk(targetDisk), "unregistered disk")
             \cup Fault(~Exists(World, m.Disk, GetPath(m)), "no source object"),
          defaultOptions)

TransferFailures == {"none", "Exists", "Get", "RepoSave", "Save", "SaveCopy", "Delete"}

CallCopyMediaToDisk ==
    /\ Idle
    /\ \E id \in DOMAIN media, targetDisk \in DiskNames,
          f \in TransferFailures \ {"Delete"} :
         /\ Within(CopyMediaToDisk(World, media[id], targetDisk, f))
         /\ Done(CopyMediaToDisk(World, media[id], targetDisk, f),
                 "CopyMediaToDisk", id, targetDisk, TransferInput(media[id], targetDisk))

CallMoveMediaToDisk ==
    /\ Idle
    /\ \E id \in DOMAIN media, targetDisk \in DiskNames, f \in TransferFailures :
         /\ Within(MoveMediaToDisk(World, media[id], targetDisk, f))
         /\ Done(MoveMediaToDisk(World, media[id], targetDisk, f),
                 "MoveMediaToDisk", id, targetDisk, TransferInput(media[id], targetDisk))

CallPerformConversions ==
    /\ Idle
    /\ \E id \in DOMAIN media, names \in SeqsUpTo(ConversionNames, MaxNames),
          f \in {"none", "Get", "RepoSave"} :
         \E outs \in [1..Len(names) -> Outcomes] :
            Regenerated(PerformConversions(World, media[id], names, f, outs),
                        "PerformConversions", id, names)
    /\ UNCHANGED skipped

CallGenerateResponsiveImages ==
    /\ Idle
    /\ \E id \in DOMAIN media, names \in SeqsUpTo(ResponsiveNames, MaxNames - 1),
          f \in {"none", "Get", "RepoSave"} :
         \E outs \in [1..Len(names) -> [1..2 -> Outcomes \ {"encodeErr"}]] :
            Regenerated(GenerateResponsiveImages(World, media[id], names, f, outs),
                        "GenerateResponsiveImages", id, names)
    /\ UNCHANGED skipped

CallGetURLForMedia ==
    /\ Idle
    /\ \E id \in DOMAIN media :
         last' = Op("GetURLForMedia", id, <<>>, "", FALSE, id, GetURLForMedia(media[id]))
    /\ calls' = <<>>
    /\ UNCHANGED <<disks, store, repo, media, uuidSeq, threads, healthy, skipped, dm, callers, probe, recipes, enc>>

CallGetURLForMediaConversion ==
    /\ Idle
    /\ \E id \in DOMAIN media, conversionName \in ConversionNames :
         last' = Op("GetURLForMediaConversion", id, <<conversionName>>, "", FALSE, id,
                    GetURLForMediaConversion(media[id], conversionName))
    /\ calls' = <<>>
    /\ UNCHANGED <<disks, store, repo, media, uuidSeq, threads, healthy, skipped, dm, callers, probe, recipes, enc>>


\* the widths the callers of this model ask for
Widths == {320, 480, 640}

CallGetURLForResponsiveImage ==
    /\ Idle
    /\ \E id \in DOMAIN media, conversionName \in ResponsiveNames, width \in Widths :
         last' = Op("GetURLForResponsiveImage", id, <<conversionName>>,
                    ToString(width), FALSE, id,
                    GetURLForResponsiveImage(media[id], conversionName, width))
    /\ calls' = <<>>
    /\ UNCHANGED <<disks, store, repo, media, uuidSeq, threads, healthy, skipped, dm, callers, probe, recipes, enc>>

\* the alias methods on a record of the caller
CallGetMediaUrl ==
    /\ Idle
    /\ \E id \in DOMAIN media :
         last' = Op("GetMediaUrl", id, <<>>, "", FALSE, id, GetMediaUrl(media[id]))
    /\ calls' = <<>>
    /\ UNCHANGED <<disks, store, repo, media, uuidSeq, threads, healthy, skipped, dm, callers, probe, recipes, enc>>

CallGetMediaConversionUrl ==
    /\ Idle
    /\ \E id \in DOMAIN media, conversionName \in ConversionNames :
         last' = Op("GetMediaConversionUrl", id, <<conversionName>>, "", FALSE, id,
                    GetMediaConversionUrl(media[id], conversionName))
    /\ calls' = <<>>
    /\ UNCHANGED <<disks, store, repo, media, uuidSeq, threads, healthy, skipped, dm, callers, probe, recipes, enc>>

CallGetMediaResponsiveImageUrl ==
    /\ Idle
    /\ \E id \in DOMAIN media, conversionName \in ResponsiveNames, width \in Widths :
         last' = Op("GetMediaResponsiveImageUrl", id, <<conversionName>>,
                    ToString(width), FALSE, id,
                    GetMediaResponsiveImageUrl(media[id], conversionName, width))
    /\ calls' = <<>>
    /\ UNCHANGED <<disks, store, repo, media, uuidSeq, threads, healthy, skipped, dm, callers, probe, recipes, enc>>

\* the URL methods, by the kind of URL they resolve
OriginalURLOps   == {"GetURLForMedia", "GetMediaUrl"}
ConversionURLOps == {"GetURLForMediaConversion", "GetMediaConversionUrl"}
ResponsiveURLOps == {"GetURLForResponsiveImage", "GetMediaResponsiveImageUrl"}
URLOps == OriginalURLOps \cup ConversionURLOps \cup ResponsiveURLOps

\* what URL method `op` returns for the nil record
URLOfNil(op) ==
    CASE op = "GetURLForMedia"             -> GetURLForMedia(NoMedia)
      [] op = "GetMediaUrl"                -> GetMediaUrl(NoMedia)
      [] op = "GetURLForMediaConversion"   -> GetURLForMediaConversion(NoMedia, "thumb")
      [] op = "GetMediaConversionUrl"      -> GetMediaConversionUrl(NoMedia, "thumb")
      [] op = "GetURLForResponsiveImage"   -> GetURLForResponsiveImage(NoMedia, "thumb", 320)
      [] op = "GetMediaResponsiveImageUrl" -> GetMediaResponsiveImageUrl(NoMedia, "thumb", 320)

\* a URL method called with a nil record
CallGetURLOfNil ==
    /\ Idle
    /\ \E op \in URLOps :
         last' = Op(op, 0, <<"thumb">>, "", FALSE, 0, URLOfNil(op))
    /\ calls' = <<>>
    /\ UNCHANGED <<disks, store, repo, media, uuidSeq, threads, healthy, skipped, dm, callers, probe, recipes, enc>>

\* the disks the callers of this model unregister and register again
Removable == DiskNames

\* DiskManager.AddDisk
AddDisk ==
    /\ Idle
    /\ \E name \in Removable \ disks :
         /\ disks' = disks \cup {name}
         /\ last' = Op("AddDisk", 0, <<>>, name, FALSE, 0, <<>>)
    /\ calls' = <<>>
    /\ UNCHANGED <<store, repo, media, uuidSeq, threads, healthy, skipped, dm, callers, probe, recipes, enc>>

\* DiskManager.RemoveDisk
RemoveDisk ==
    /\ Idle
    /\ \E name \in Removable \cap disks :
         /\ disks' = disks \ {name}
         /\ last' = Op("RemoveDisk", 0, <<>>, name, FALSE, 0, <<>>)
    /\ calls' = <<>>
    /\ UNCHANGED <<store, repo, media, uuidSeq, threads, healthy, skipped, dm, callers, probe, recipes, enc>>

\* the caller has taken the result of the last operation; its call log is dropped
Return ==
    /\ ~Idle
    /\ last' = NoOp
    /\ calls' = <<>>
    /\ UNCHANGED <<disks, store, repo, media, uuidSeq, threads, healthy, skipped, dm, callers, probe, recipes, enc>>

\* one record's life: ingestion, derived-artifact generation, URL resolution
Next ==
    \/ CallAddMediaFromURL
    \/ CallAddMediaFromDisk
    \/ CallAddMediaFromDiskToDisk
    \/ CallPerformConversions
    \/ CallGenerateResponsiveImages
    \/ CallGetURLForMedia
    \/ CallGetURLForMediaConversion
    \/ CallGetURLForResponsiveImage
    \/ Return

Spec == Init /\ [][Next]_vars

\* records across disks: ingestion, copy and move, with disks coming and going
NextTransfer ==
    \/ CallAddMediaFromURL
    \/ CallAddMediaFromDisk
    \/ CallAddMediaFromDiskToDisk
    \/ CallCopyMediaToDisk
    \/ CallMoveMediaToDisk
    \/ AddDisk
    \/ RemoveDisk
    \/ Return

SpecTransfer == Init /\ [][NextTransfer]_vars

\* URL resolution for records whose objects and disks come and go
NextResolve ==
    \/ CallAddMediaFromDisk
    \/ CallMoveMediaToDisk
    \/ AddDisk
    \/ RemoveDisk
    \/ CallGetURLForMedia
    \/ CallGetURLForMediaConversion
    \/ CallGetURLForResponsiveImage
    \/ CallGetMediaUrl
    \/ CallGetMediaConversionUrl
    \/ CallGetMediaResponsiveImageUrl
    \/ CallGetURLOfNil
    \/ Return

SpecResolve == Init /\ [][NextResolve]_vars

\* the names an application's regeneration job passes in one call
JobNames == <<"thumb">>

\* the regeneration job calls PerformConversions on a record of the caller
RunPerformConversions ==
    /\ Idle
    /\ \E id \in DOMAIN media, f \in {"none", "Get", "RepoSave"},
          out \in {"ok", "storeErr"} :
         Regenerated(PerformConversions(World, media[id], JobNames, f, <<out>>),
                     "PerformConversions", id, JobNames)
    /\ UNCHANGED skipped

\* the regeneration job calls GenerateResponsiveImages on a record of the caller
RunGenerateResponsiveImages ==
    /\ Idle
    /\ \E id \in DOMAIN media, f \in {"none", "RepoSave"}, out \in {"ok", "storeErr"} :
         Regenerated(GenerateResponsiveImages(World, media[id], JobNames, f,
                                              <<<<out, out>>>>),
                     "GenerateResponsiveImages", id, JobNames)
    /\ UNCHANGED skipped

\* a record's whole life: ingestion, generation, copy, move, generation on
\* the copies, URL resolution
NextLifecycle ==
    \/ CallAddMediaFromURL
    \/ CallAddMediaFromDisk
    \/ RunPerformConversions
    \/ RunGenerateResponsiveImages
    \/ CallCopyMediaToDisk
    \/ CallMoveMediaToDisk
    \/ CallGetURLForMedia
    \/ Return

SpecLifecycle == Init /\ [][NextLifecycle]_vars

----------------------------------------------------------------------------
(* PerformConversions on concurrent goroutines, step by step *)

\* the world as goroutine t sees it, with its own call log
WorldOf(t) ==
    [store |-> store, repo |-> repo, calls |-> threads[t].log, recipes |-> recipes]

\* the names the goroutines ask for: each name at most once
ThreadNames ==
    {names \in SeqsUpTo(ConversionNames, MaxNames) :
        /\ names # <<>>
        /\ \A i, j \in 1..Len(names) : names[i] = names[j] => i = j}

\* PerformConversions up to its loop: the disks are looked up, the original
\* is fetched and decoded, the index of the handed record is parsed
Begun(W, m, names, f) ==
    IF ~GetDisk(m.Disk) \/ ~GetDisk(m.ConversionsDisk)
    THEN Call("done", m, names, 1, EmptyMap, <<>>, FALSE, TRUE)
    ELSE IF ~GetOk(W, m.Disk, GetPath(m), IF f = "Get" THEN "err" ELSE "ok")
    THEN Call("done", m, names, 1, EmptyMap,
              <<Ev("Get", m.Disk, GetPath(m), "", FALSE)>>, FALSE, TRUE)
    ELSE IF ~Decodable(W.store[m.Disk][GetPath(m)])
    THEN Call("done", m, names, 1, EmptyMap,
              <<Ev("Get", m.Disk, GetPath(m), "", TRUE)>>, FALSE, TRUE)
    ELSE Call("loop", m, names, 1, LoadGeneratedConversions(m),
              <<Ev("Get", m.Disk, GetPath(m), "", TRUE)>>, FALSE, FALSE)

\* a goroutine loads the row of a record (FindByID) and calls
\* PerformConversions on its copy
Begin(t) ==
    /\ Idle
    /\ threads[t].pc = "idle"
    /\ \E id \in 1..Len(repo), names \in ThreadNames, f \in {"none", "Get"} :
         threads' = [threads EXCEPT ![t] = Begun(WorldOf(t), repo[id], names, f)]
    /\ UNCHANGED <<disks, store, repo, media, uuidSeq, calls, last, healthy, skipped, dm, callers, probe, recipes, enc>>

\* what the conversions backend can do to one name of goroutine t: under a
\* cancelled context S3Storage.Save (PutObject(ctx, ...)) fails, while
\* LocalStorage.Save and Transform do not look at the context
StepOutcomes(t) ==
    IF threads[t].cancelled /\ threads[t].m.ConversionsDisk \notin LocalDisks
    THEN {"storeErr"}
    ELSE {"ok", "storeErr"}

\* goroutine t has run the loop body for its i-th name, with result acc
Stepped(t, acc) ==
    /\ store' = acc.W.store
    /\ threads' = [threads EXCEPT ![t].gc = acc.gc, ![t].log = acc.W.calls,
                                  ![t].i = @ + 1]

\* one turn of the loop `for _, conversionName := range conversionNames`
Step(t) ==
    /\ threads[t].pc = "loop"
    /\ threads[t].i <= Len(threads[t].names)
    /\ \E out \in StepOutcomes(t) :
         Stepped(t, PerformConversionsStep(
                        [W |-> WorldOf(t), gc |-> threads[t].gc], threads[t].m,
                        store[threads[t].m.Disk][GetPath(threads[t].m)],
                        threads[t].names[threads[t].i], out))
    /\ UNCHANGED <<disks, repo, media, uuidSeq, calls, last, healthy, skipped, dm, callers, probe, recipes, enc>>

\* goroutine t's call returned r
Finished(t, r) ==
    /\ repo' = r.W.repo
    /\ threads' = [threads EXCEPT ![t].pc = "done", ![t].m = r.m,
                                  ![t].log = r.W.calls, ![t].err = r.err]

\* after the loop: the index is marshalled into the record and the record is
\* saved; repository.Save(ctx, media) fails under a cancelled context
Finish(t) ==
    /\ threads[t].pc = "loop"
    /\ threads[t].i > Len(threads[t].names)
    /\ \E ok \in (IF threads[t].cancelled THEN {FALSE} ELSE BOOLEAN) :
         Finished(t, SaveGeneratedConversions(
                         [W |-> WorldOf(t), gc |-> threads[t].gc], threads[t].m, ok))
    /\ UNCHANGED <<disks, store, media, uuidSeq, calls, last, healthy, skipped, dm, callers, probe, recipes, enc>>

\* the context of goroutine t's call is cancelled while the loop runs
Cancel(t) ==
    /\ threads[t].pc = "loop"
    /\ ~threads[t].cancelled
    /\ threads' = [threads EXCEPT ![t].cancelled = TRUE,
                                  ![t].log = Append(@, Ev("Cancel", "", <<>>, "", TRUE))]
    /\ UNCHANGED <<disks, store, repo, media, uuidSeq, calls, last, healthy, skipped, dm, callers, probe, recipes, enc>>

BeginAny  == \E t \in Threads : Begin(t)
StepAny   == \E t \in Threads : Step(t)
FinishAny == \E t \in Threads : Finish(t)
CancelAny == \E t \in Threads : Cancel(t)

\* one record is ingested, then goroutines call PerformConversions on it
NextConcurrent ==
    \/ CallAddMediaFromDisk
    \/ Return
    \/ BeginAny
    \/ StepAny
    \/ FinishAny
    \/ CancelAny

SpecConcurrent == Init /\ [][NextConcurrent]_vars

----------------------------------------------------------------------------
(* A caller that re-invokes PerformConversions until the backends work *)

\* the names the caller keeps asking for
RetryNames == <<"thumb", "preview">>

\* what the backends do to a call: anything while they are failing, nothing
\* once they work
RetryFailures == IF healthy THEN {"none"} ELSE {"none", "RepoSave"}
RetryOutcomes == IF healthy THEN {"ok"} ELSE {"ok", "transformErr", "storeErr"}

\* the names of the call that were tried and not stored, by the call's log
SkippedIn(m, log) ==
    {RetryNames[i] : i \in {j \in 1..Len(RetryNames) :
        \E k \in 1..Len(log) :
           \/ log[k] = Ev("Transform", "", <<>>, RetryNames[j], FALSE)
           \/ log[k] = Ev("Save", m.ConversionsDisk,
                          GetPathForConversion(m, RetryNames[j]), "", FALSE)}}

\* the retried call on the caller's record id returned r
Retried(r, id) ==
    /\ Regenerated(r, "PerformConversions", id, RetryNames)
    /\ skipped' = skipped \cup SkippedIn(media[id], r.W.calls)

\* the caller invokes PerformConversions(record, RetryNames...) once more
Retry ==
    /\ Idle
    /\ \E id \in DOMAIN media, f \in RetryFailures :
         \E outs \in [1..Len(RetryNames) -> RetryOutcomes] :
            Retried(PerformConversions(World, media[id], RetryNames, f, outs), id)

\* the backends recover and stay healthy
Heal ==
    /\ ~healthy
    /\ healthy' = TRUE
    /\ UNCHANGED <<disks, store, repo, media, uuidSeq, calls, last, threads, skipped, dm, callers, probe, recipes, enc>>

NextRetry ==
    \/ CallAddMediaFromDisk
    \/ Retry
    \/ Heal
    \/ Return

\* the backends eventually recover, and a call that has returned is taken
\* by its caller; how often the caller re-invokes is up to the caller
SpecRetry == Init /\ [][NextRetry]_vars /\ WF_vars(Heal) /\ WF_vars(Return)

----------------------------------------------------------------------------
(* DiskManager on concurrent goroutines, lock by lock *)

Updates == {"AddDisk", "RemoveDisk"}
Lookups == {"GetDisk", "HasDisk"}

\* the calls the goroutines of this model make
DiskManagerCalls ==
    {Caller("lock", "AddDisk", name, storage, Answer(NoStorage, FALSE), {}) :
        name \in DiskNames, storage \in Storages}
    \cup {Caller("lock", op, name, NoStorage, Answer(NoStorage, FALSE), {}) :
            op \in {"RemoveDisk", "GetDisk", "HasDisk"}, name \in DiskNames}

\* RLock that does not wait for the writer
RLockableAlways(mu) == TRUE

\* mu.RLock() returns once no goroutine holds the write lock
RLockable(mu) == mu.w = 0

\* mu.Lock() returns once no goroutine holds the lock in either mode
Lockable(mu) == mu.w = 0 /\ mu.r = {}

\* dm.disks[name] = storage, or delete(dm.disks, name)
Assigned(registry, c) ==
    IF c.op = "AddDisk" THEN Put(registry, c.name, c.storage) ELSE Drop(registry, c.name)

\* `disk, ok := dm.disks[name]` as GetDisk returns it, `_, ok := dm.disks[name]`
\* as HasDisk does
LookedUp(registry, op, name) ==
    IF name \notin DOMAIN registry THEN Answer(NoStorage, FALSE)
    ELSE IF op = "GetDisk" THEN Answer(registry[name], TRUE)
    ELSE Answer(NoStorage, TRUE)

\* the map values a goroutine can meet when it touches the map while another
\* goroutine writes it: a data race, anything the map's type allows
RacedRegistries == UNION {[D -> Storages] : D \in SUBSET DiskNames}
RacedAnswers == {Answer(storage, ok) : storage \in Storages \cup {NoStorage}, ok \in BOOLEAN}

\* a goroutine calls a DiskManager method: it asks for the lock
Invoke(t) ==
    /\ callers[t].pc = "idle"
    /\ \E c \in DiskManagerCalls : callers' = [callers EXCEPT ![t] = c]
    /\ UNCHANGED <<disks, store, repo, media, uuidSeq, calls, last, threads, healthy, skipped, dm, probe, recipes, enc>>

\* dm.mu.Lock() in AddDisk and RemoveDisk
Lock(t) ==
    /\ callers[t].pc = "lock"
    /\ callers[t].op \in Updates
    /\ Lockable(dm.mu)
    /\ dm' = [dm EXCEPT !.mu.w = t]
    /\ callers' = [callers EXCEPT ![t].pc = "locked"]
    /\ UNCHANGED <<disks, store, repo, media, uuidSeq, calls, last, threads, healthy, skipped, probe, recipes, enc>>

\* dm.mu.RLock() in GetDisk and HasDisk
RLock(t) ==
    /\ callers[t].pc = "lock"
    /\ callers[t].op \in Lookups
    /\ RLockable(dm.mu)
    /\ dm' = [dm EXCEPT !.mu.r = @ \cup {t}]
    /\ callers' = [callers EXCEPT ![t].pc = "locked"]
    /\ UNCHANGED <<disks, store, repo, media, uuidSeq, calls, last, threads, healthy, skipped, probe, recipes, enc>>

\* the map assignment or delete begins
WriteBegin(t) ==
    /\ callers[t].pc = "locked"
    /\ callers[t].op \in Updates
    /\ dm' = [dm EXCEPT !.writing = @ \cup {t}]
    /\ callers' = [callers EXCEPT ![t].pc = "writing"]
    /\ UNCHANGED <<disks, store, repo, media, uuidSeq, calls, last, threads, healthy, skipped, probe, recipes, enc>>

\* the map assignment or delete ends; two writes at once are a data race
WriteEnd(t) ==
    /\ callers[t].pc = "writing"
    /\ \E registry \in IF dm.writing = {t} THEN {Assigned(dm.disks, callers[t])}
                       ELSE RacedRegistries :
         dm' = [dm EXCEPT !.disks = registry, !.writing = @ \ {t}]
    /\ callers' = [callers EXCEPT ![t].pc = "unlock"]
    /\ UNCHANGED <<disks, store, repo, media, uuidSeq, calls, last, threads, healthy, skipped, probe, recipes, enc>>

\* the map lookup of GetDisk and HasDisk; a lookup during a write is a data
\* race.  seen is what the map holds under the name before and after the
\* writes in progress.
Read(t) ==
    /\ callers[t].pc = "locked"
    /\ callers[t].op \in Lookups
    /\ \E ret \in IF dm.writing = {}
                  THEN {LookedUp(dm.disks, callers[t].op, callers[t].name)}
                  ELSE RacedAnswers :
         callers' = [callers EXCEPT
                        ![t].pc = "unlock",
                        ![t].ret = ret,
                        ![t].seen = {LookedUp(dm.disks, callers[t].op, callers[t].name)}
                                    \cup {LookedUp(Assigned(dm.disks, callers[u]),
                                                   callers[t].op, callers[t].name) :
                                            u \in dm.writing}]
    /\ UNCHANGED <<disks, store, repo, media, uuidSeq, calls, last, threads, healthy, skipped, dm, probe, recipes, enc>>

\* the deferred dm.mu.Unlock() or dm.mu.RUnlock(); the method returns
Unlock(t) ==
    /\ callers[t].pc = "unlock"
    /\ dm' = IF callers[t].op \in Updates THEN [dm EXCEPT !.mu.w = 0]
             ELSE [dm EXCEPT !.mu.r = @ \ {t}]
    /\ callers' = [callers EXCEPT ![t].pc = "done"]
    /\ UNCHANGED <<disks, store, repo, media, uuidSeq, calls, last, threads, healthy, skipped, probe, recipes, enc>>

\* the goroutine has taken the result
Resume(t) ==
    /\ callers[t].pc = "done"
    /\ callers' = [callers EXCEPT ![t] = NoCaller]
    /\ UNCHANGED <<disks, store, repo, media, uuidSeq, calls, last, threads, healthy, skipped, dm, probe, recipes, enc>>

InvokeAny     == \E t \in Threads : Invoke(t)
LockAny       == \E t \in Threads : Lock(t)
RLockAny      == \E t \in Threads : RLock(t)
WriteBeginAny == \E t \in Threads : WriteBegin(t)
WriteEndAny   == \E t \in Threads : WriteEnd(t)
ReadAny       == \E t \in Threads : Read(t)
UnlockAny     == \E t \in Threads : Unlock(t)
ResumeAny     == \E t \in Threads : Resume(t)

NextRegistry ==
    \/ InvokeAny
    \/ LockAny
    \/ RLockAny
    \/ WriteBeginAny
    \/ WriteEndAny
    \/ ReadAny
    \/ UnlockAny
    \/ ResumeAny

SpecRegistry == Init /\ [][NextRegistry]_vars

----------------------------------------------------------------------------
(* A caller that ingests again *)

\* the option lists of the later ingestions
LaterOptionLists == { <<>>, <<WithDisk("archive")>>, <<WithName(<<"cover">>)>> }

\* the URLs of the later ingestions: one more, whose file name has two dots
BackupName == <<"backup", ".", "tar", ".", "gz">>
LaterURLs ==
    URLs \cup {[valid |-> TRUE, path |-> <<<<>>, <<"files">>, BackupName>>,
                bytes |-> TextBytes]}

\* AddMediaFromURL called once more
CallAddMediaFromURLAgain ==
    /\ Idle
    /\ MaxIngested <= Len(repo) /\ Len(repo) < MaxRecords
    /\ \E u \in LaterURLs, collection \in Collections, options \in LaterOptionLists,
          f \in IngestFailures :
         \E g \in GenScripts(options, f) :
            Done(AddMediaFromURL(World, u, collection, options, f, g),
                 "AddMediaFromURL", 0, "",
                 Input(Fault(~u.valid, "malformed URL"),
                       CallOptions(defaultOptions.DefaultDisk, options)))

\* AddMediaFromDisk called once more
CallAddMediaFromDiskAgain ==
    /\ Idle
    /\ MaxIngested <= Len(repo) /\ Len(repo) < MaxRecords
    /\ \E file \in LocalFiles, collection \in Collections, options \in LaterOptionLists,
          f \in {"none", "RepoSave", "Save", "SaveCopy"} :
         \E g \in GenScripts(options, f) :
            Done(AddMediaFromDisk(World, file, collection, options, f, g),
                 "AddMediaFromDisk", 0, "",
                 Input(Fault(~file.exists, "unopenable file"),
                       CallOptions(defaultOptions.DefaultDisk, options)))

\* AddMediaFromDiskToDisk called once more
CallAddMediaFromDiskToDiskAgain ==
    /\ Idle
    /\ MaxIngested <= Len(repo) /\ Len(repo) < MaxRecords
    /\ \E sourceDisk \in DiskNames, sourcePath \in {InboxPhoto, InboxGone},
          targetDisk \in DiskNames, collection \in Collections,
          options \in LaterOptionLists,
          f \in {"none", "Exists", "Get", "RepoSave", "Save", "SaveCopy"} :
         \E g \in GenScripts(options, f) :
            Done(AddMediaFromDiskToDisk(World, sourceDisk, sourcePath, targetDisk,
                                        collection, options, f, g),
                 "AddMediaFromDiskToDisk", 0, targetDisk,
                 Input(Fault(~Exists(World, sourceDisk, sourcePath), "no source object"),
                       CallOptions(targetDisk, options)))

\* the additional options of the calls that bind the record to an owner
ModelOptionLists ==
    { <<>>, <<WithName(<<"cover">>)>>, <<WithDisk("archive"), WithModel("users", 9)>>,
      <<WithModel("posts", 7), WithAutoGenerateConversions(TRUE)>> }

\* the owners passed as arguments
Owners == {[modelType |-> "posts", modelID |-> 7], [modelType |-> "users", modelID |-> 3]}

\* AddMediaFromURLToModel called by an application; the owner it passed is
\* recorded with the call's input
CallAddMediaFromURLToModel ==
    /\ Idle
    /\ Len(repo) < MaxIngested
    /\ \E u \in URLs, owner \in Owners, collection \in Collections,
          options \in ModelOptionLists, f \in IngestFailures :
         \E g \in GenScripts(<<WithModel(owner.modelType, owner.modelID)>> \o options, f) :
            Done(AddMediaFromURLToModel(World, u, owner.modelType, owner.modelID,
                                        collection, options, f, g),
                 "AddMediaFromURLToModel", 0, "",
                 Input(Fault(~u.valid, "malformed URL"),
                       CallOptions(defaultOptions.DefaultDisk,
                                   <<WithModel(owner.modelType, owner.modelID)>>
                                      \o options))
                    @@ owner)

NextReingest ==
    \/ CallAddMediaFromURL
    \/ CallAddMediaFromURLToModel
    \/ CallAddMediaFromDisk
    \/ CallAddMediaFromDiskToDisk
    \/ CallAddMediaFromURLAgain
    \/ CallAddMediaFromDiskAgain
    \/ CallAddMediaFromDiskToDiskAgain
    \/ Return

SpecReingest == Init /\ [][NextReingest]_vars

----------------------------------------------------------------------------
(* The library's pure functions, evaluated on their own: each behaviour *)
(* evaluates one function on one choice of arguments                   *)

\* the generation methods
GeneratingOps == {"PerformConversions", "GenerateResponsiveImages"}

\* the ingestion methods
IngestOps == {"AddMediaFromURL", "AddMediaFromDisk", "AddMediaFromDiskToDisk"}

\* custom properties the callers of this model pass
SiteProperties == Put(Put(EmptyMap, "alt", "site"), "lang", "en")
CallProperties == Put(Put(EmptyMap, "alt", "call"), "tag", "new")

\* the option lists a library is constructed with
ConstructionLists ==
    { <<>>,
      <<WithDefaultDisk("archive")>>,
      <<WithDefaultDisk("archive"), WithConversionsDisk("archive")>>,
      <<WithConversionsDisk("archive")>>,
      <<WithAutoGenerateConversions(TRUE), WithPerformConversions(<<"thumb">>)>>,
      <<WithCustomProperties(SiteProperties)>>,
      <<WithModel("posts", 1)>>,
      <<WithName(<<"cover">>)>> }

\* the option lists an ingestion call is given
PerCallLists ==
    { <<>>,
      <<WithDisk("archive"), WithDisk("s3")>>,
      <<WithConversionsDisk("archive"), WithAutoGenerateConversions(TRUE)>>,
      <<WithAutoGenerateConversions(FALSE), WithPerformConversions(<<"preview">>),
        WithGenerateResponsiveImages(<<"thumb">>)>>,
      <<WithCustomProperties(CallProperties)>>,
      <<WithCustomProperties(CallProperties), WithCustomProperties(SiteProperties)>>,
      <<WithModel("users", 2), WithName(<<"avatar">>)>> }

\* NewDefaultMediaLibrary(..., options...) evaluated
EvalNewDefaultMediaLibrary ==
    /\ probe = NoProbe
    /\ \E options \in ConstructionLists :
         probe' = [fn |-> "NewDefaultMediaLibrary", options |-> options,
                   defaults |-> NewDefaultMediaLibrary(options)]
    /\ UNCHANGED <<disks, store, repo, media, uuidSeq, calls, last, threads, healthy, skipped, dm, callers, recipes, enc>>

\* the effective options of an ingestion call evaluated: `variant` is the
\* ingestion method, targetDisk its argument (AddMediaFromDiskToDisk only)
EvalCallOptions ==
    /\ probe = NoProbe
    /\ \E construction \in ConstructionLists, variant \in IngestOps,
          targetDisk \in DiskNames, options \in PerCallLists :
         probe' = [fn |-> "CallOptions", variant |-> variant, options |-> options,
                   defaults |-> NewDefaultMediaLibrary(construction),
                   targetDisk |-> targetDisk,
                   opts |-> CallOptionsOf(NewDefaultMediaLibrary(construction),
                                          IF variant = "AddMediaFromDiskToDisk"
                                          THEN targetDisk
                                          ELSE NewDefaultMediaLibrary(construction).DefaultDisk,
                                          options)]
    /\ UNCHANGED <<disks, store, repo, media, uuidSeq, calls, last, threads, healthy, skipped, dm, callers, recipes, enc>>

\* the prefixes, file names and names the paths are derived for
Prefixes  == {<<>>, <<"media">>}
FileNames == {PhotoName, NotesName, BackupName, <<".", "env">>}

\* the three paths of one record evaluated
EvalPaths ==
    /\ probe = NoProbe
    /\ \E pfx \in Prefixes, id \in 1..MaxRecords, fileName \in FileNames,
          conversionName \in ConversionNames \cup ResponsiveNames, width \in Widths :
         probe' = [fn |-> "Paths", prefix |-> pfx, ID |-> id, FileName |-> fileName,
                   conversionName |-> conversionName, width |-> width,
                   path |-> GetPathOf([prefix |-> pfx],
                                      [ID |-> id, FileName |-> fileName]),
                   conversion |-> GetPathForConversionOf([prefix |-> pfx],
                                      [ID |-> id, FileName |-> fileName], conversionName),
                   responsive |-> GetPathForResponsiveImageOf([prefix |-> pfx],
                                      [ID |-> id, FileName |-> fileName], conversionName,
                                      width)]
    /\ UNCHANGED <<disks, store, repo, media, uuidSeq, calls, last, threads, healthy, skipped, dm, callers, recipes, enc>>

\* the configurations a backend is built from
S3Configs    == [BaseURL : {<<>>, <<"https://cdn">>}, PublicURLs : BOOLEAN]
LocalConfigs == [BaseURL : {<<>>, <<"http://files", "/">>}]

\* the keys the URLs are made for
URLPaths == {<<<<"1">>, PhotoName>>, <<<<>>, <<"1">>, PhotoName>>,
             <<<<"media">>, <<"2">>, <<"thumb">>, <<"conversions">>, NotesName>>}

\* Storage.URL(path) of a backend evaluated
EvalURL ==
    /\ probe = NoProbe
    /\ \/ \E cfg \in S3Configs, path \in URLPaths :
            probe' = [fn |-> "URL", backend |-> "S3Storage", BaseURL |-> cfg.BaseURL,
                      PublicURLs |-> cfg.PublicURLs, path |-> path,
                      url |-> S3URLOf(cfg, path)]
       \/ \E cfg \in LocalConfigs, path \in URLPaths :
            probe' = [fn |-> "URL", backend |-> "LocalStorage", BaseURL |-> cfg.BaseURL,
                      PublicURLs |-> FALSE, path |-> path,
                      url |-> LocalURLOf(cfg, path)]
    /\ UNCHANGED <<disks, store, repo, media, uuidSeq, calls, last, threads, healthy, skipped, dm, callers, recipes, enc>>

\* the Format option of the recipe a transform was registered with
Formats == {"jpg", "png", "gif"}

\* the file names of the records whose artifacts are encoded
EncodedNames == FileNames \cup {<<"anim", ".", "gif">>, <<"shot", ".", "jpg">>,
                                <<"scan", ".", "PNG">>}

\* the encode step of PerformConversions (method "PerformConversions", no
\* width) and of GenerateResponsiveImages evaluated on a transformed image
\* whose recipe has the Format option `format`
EvalEncode ==
    /\ probe = NoProbe
    /\ \E fileName \in EncodedNames, format \in Formats, method \in GeneratingOps,
          conversionName \in ConversionNames, width \in Widths :
         probe' = [fn |-> "Encode", method |-> method, FileName |-> fileName,
                   format |-> format, conversionName |-> conversionName,
                   width |-> IF method = "PerformConversions" THEN 0 ELSE width,
                   bytes |-> IF method = "PerformConversions"
                             THEN Encode(fileName, conversionName, "", PngBytes)
                             ELSE Encode(fileName, conversionName, ToString(width),
                                         PngBytes)]
    /\ UNCHANGED <<disks, store, repo, media, uuidSeq, calls, last, threads, healthy, skipped, dm, callers, recipes, enc>>

\* file names that look like the names of derived artifacts
ArtifactLikeNames ==
    {PhotoName, <<"photo", "-", "thumb", ".", "png">>,
     <<"photo", "-", "thumb", "-", "320", ".", "png">>, <<"thumb">>, <<"conversions">>}

\* the keys PerformConversions and GenerateResponsiveImages write for record
\* `of`, and the key under which record `other` keeps its original
EvalKeys ==
    /\ probe = NoProbe
    /\ \E pfx \in Prefixes, id \in 1..MaxRecords, otherID \in 1..MaxRecords,
          fileName \in {PhotoName, NotesName}, otherName \in ArtifactLikeNames,
          conversionName \in ConversionNames, width \in Widths :
         probe' = [fn |-> "Keys", prefix |-> pfx,
                   of |-> [ID |-> id, FileName |-> fileName],
                   other |-> [ID |-> otherID, FileName |-> otherName],
                   conversionName |-> conversionName, width |-> width,
                   original |-> PathString(GetPathOf([prefix |-> pfx],
                                      [ID |-> id, FileName |-> fileName])),
                   otherOriginal |-> PathString(GetPathOf([prefix |-> pfx],
                                      [ID |-> otherID, FileName |-> otherName])),
                   conversion |-> PathString(GetPathForConversionOf([prefix |-> pfx],
                                      [ID |-> id, FileName |-> fileName], conversionName)),
                   responsive |-> PathString(GetPathForResponsiveImageOf([prefix |-> pfx],
                                      [ID |-> id, FileName |-> fileName], conversionName,
                                      width))]
    /\ UNCHANGED <<disks, store, repo, media, uuidSeq, calls, last, threads, healthy, skipped, dm, callers, recipes, enc>>

NextFunctions ==
    \/ EvalKeys
    \/ EvalNewDefaultMediaLibrary
    \/ EvalCallOptions
    \/ EvalPaths
    \/ EvalURL
    \/ EvalEncode

SpecFunctions == Init /\ [][NextFunctions]_vars

----------------------------------------------------------------------------
(* The encode-then-store step of PerformConversions and of                *)
(* GenerateResponsiveImages: the encoder goroutine, the pipe, Storage.Save *)

\* everything but the call that is followed
Rest == <<disks, store, repo, media, uuidSeq, calls, last, threads, healthy, skipped, dm, callers, probe, recipes>>

\* a generation call got past its preparation and enters its loop with n
\* artifacts to encode and store
StartCall ==
    /\ enc.pc = "idle"
    /\ \E method \in GeneratingOps, n \in Steps :
         enc' = [enc EXCEPT !.pc = "loop", !.method = method, !.n = n, !.i = 1]
    /\ UNCHANGED Rest

\* pr, pw := io.Pipe(); go func() {...}(); conversionsDisk.Save(ctx, path, pr, ...):
\* the goroutine is started and the caller is inside Save
Spawn ==
    /\ enc.pc = "loop" /\ enc.i <= enc.n
    /\ \E left \in 1..MaxChunks, fail \in BOOLEAN, backend \in Storages :
         enc' = [enc EXCEPT !.pc = "saving",
                            !.task[enc.i] = EncoderTask("encoding", left, fail),
                            !.pipe[enc.i] = Pipe(FALSE, "open"),
                            !.save = [pc |-> "open", backend |-> backend]]
    /\ UNCHANGED Rest

\* png.Encode / gif.Encode / jpeg.Encode calls pw.Write: the chunk is handed
\* to the pipe and the goroutine waits inside Write until a reader took it
EncoderWrite(k) ==
    /\ enc.task[k].pc = "encoding"
    /\ enc.task[k].left > 0 /\ ~(enc.task[k].fail /\ enc.task[k].left = 1)
    /\ enc' = [enc EXCEPT !.task[k].pc = "writing", !.pipe[k].pending = TRUE]
    /\ UNCHANGED Rest

\* pw.Write returns once the read side has consumed the chunk
WriteReturns(k) ==
    /\ enc.task[k].pc = "writing" /\ ~enc.pipe[k].pending
    /\ enc' = [enc EXCEPT !.task[k].pc = "encoding", !.task[k].left = @ - 1]
    /\ UNCHANGED Rest

\* if encodeErr != nil { pw.CloseWithError(encodeErr); return }
EncoderFails(k) ==
    /\ enc.task[k].pc = "encoding" /\ enc.task[k].fail /\ enc.task[k].left = 1
    /\ enc' = [enc EXCEPT !.task[k].pc = "done", !.pipe[k].closed = "err"]
    /\ UNCHANGED Rest

\* pw.Close() after the encoder returned nil
EncoderCloses(k) ==
    /\ enc.task[k].pc = "encoding" /\ enc.task[k].left = 0
    /\ enc' = [enc EXCEPT !.task[k].pc = "done", !.pipe[k].closed = "eof"]
    /\ UNCHANGED Rest

\* Save returned to the loop: `continue` on an error, the mark otherwise,
\* and in both cases the next artifact
SaveReturned(e, err) ==
    [e EXCEPT !.pc = "loop", !.i = @ + 1, !.save = [pc |-> "none", backend |-> NoStorage],
              !.errs = Append(@, err)]

\* Save before it reads its contents: LocalStorage.Save makes the directory
\* and creates the file, S3Storage.Save builds and sends the request; either
\* fails, and Save returns the error, or it goes on to read
SaveOpen ==
    /\ enc.pc = "saving" /\ enc.save.pc = "open"
    /\ \E ok \in BOOLEAN :
         enc' = IF ok THEN [enc EXCEPT !.save.pc = "copy"] ELSE SaveReturned(enc, TRUE)
    /\ UNCHANGED Rest

\* io.Copy(file, contents) or the upload reads one chunk from the pipe and
\* writes it; when the write fails Save returns the error at once
SaveRead ==
    /\ enc.pc = "saving" /\ enc.save.pc = "copy"
    /\ enc.pipe[enc.i].pending
    /\ \E ok \in BOOLEAN :
         enc' = IF ok THEN [enc EXCEPT !.pipe[enc.i].pending = FALSE]
                ELSE SaveReturned([enc EXCEPT !.pipe[enc.i].pending = FALSE], TRUE)
    /\ UNCHANGED Rest

\* the read that finds the write end closed: io.EOF ends the copy and Save
\* returns nil, the encoder's error makes Save return it
SaveEnd ==
    /\ enc.pc = "saving" /\ enc.save.pc = "copy"
    /\ ~enc.pipe[enc.i].pending /\ enc.pipe[enc.i].closed # "open"
    /\ enc' = SaveReturned(enc, enc.pipe[enc.i].closed = "err")
    /\ UNCHANGED Rest

\* after the loop: the index is marshalled, the record saved, the call returns
ReturnFromLoop ==
    /\ enc.pc = "loop" /\ enc.i > enc.n
    /\ enc' = [enc EXCEPT !.pc = "returned"]
    /\ UNCHANGED Rest

EncoderWriteAny  == \E k \in Steps : EncoderWrite(k)
WriteReturnsAny  == \E k \in Steps : WriteReturns(k)
EncoderFailsAny  == \E k \in Steps : EncoderFails(k)
EncoderClosesAny == \E k \in Steps : EncoderCloses(k)

NextEncode ==
    \/ StartCall
    \/ Spawn
    \/ EncoderWriteAny
    \/ WriteReturnsAny
    \/ EncoderFailsAny
    \/ EncoderClosesAny
    \/ SaveOpen
    \/ SaveRead
    \/ SaveEnd
    \/ ReturnFromLoop

\* the Go scheduler runs every goroutine that can run: a step that stays
\* possible is taken
SpecEncode == Init /\ [][NextEncode]_vars /\ WF_vars(NextEncode)

----------------------------------------------------------------------------
(* Properties *)

\* what the call log and the records say, in the words of the properties

IsWrite(e) == e.t \in {"Save", "SaveFromURL"}

CreatingOps == {"AddMediaFromURL", "AddMediaFromDisk", "AddMediaFromDiskToDisk",
                "CopyMediaToDisk", "MoveMediaToDisk"}


\* the positions of the log at which event kind t was issued
At(log, t) == {i \in 1..Len(log) : log[i].t = t}

\* the conversion names a record's index marks present
Marks(m) ==
    {n \in DOMAIN UnmarshalBoolMap(m.GeneratedConversions).v :
        UnmarshalBoolMap(m.GeneratedConversions).v[n]}

\* the (name, width) pairs a record's index marks present
WidthMarks(m) ==
    LET ri == UnmarshalNestedBoolMap(m.ResponsiveImages).v
    IN  {p \in UNION {{<<n, w>> : w \in DOMAIN ri[n]} : n \in DOMAIN ri} :
            ri[p[1]][p[2]]}

\* the widths registered for a responsive conversion name
WidthsOf(n) ==
    IF n \in DOMAIN responsiveConversions
    THEN {responsiveConversions[n].Widths[x] :
             x \in DOMAIN responsiveConversions[n].Widths}
    ELSE {}

\* the call of a generation method on record m got past its preparation:
\* both disks are registered, the original was fetched and is an image
Prepared(m, log) ==
    /\ GetDisk(m.Disk) /\ GetDisk(m.ConversionsDisk)
    /\ \E k \in At(log, "Get") : log[k].ok
    /\ Decodable(store[m.Disk][GetPath(m)])

\* C1: in the three ingestion variants and in copy and move, every write to a
\* storage backend (Save, SaveFromURL) comes after a successful repository
\* Save in the same call, and the original is written under the path of the
\* record that Save created, whose ID is not 0; when the first repository
\* Save fails the call returns an error and writes nothing.
C1_SaveBeforeWrite ==
    last.op \in CreatingOps =>
        /\ \A i \in 1..Len(calls) :
              IsWrite(calls[i]) =>
                 /\ \E j \in 1..(i - 1) : calls[j].t = "RepoSave" /\ calls[j].ok
                 /\ repo # <<>> /\ repo[Len(repo)].ID # 0
                 /\ (\A k \in 1..(i - 1) : ~IsWrite(calls[k]))
                        => calls[i].path = GetPath(repo[Len(repo)])
        /\ \A j \in At(calls, "RepoSave") :
              (~calls[j].ok /\ \A k \in 1..(j - 1) : calls[k].t # "RepoSave")
                 => last.err /\ \A i \in 1..Len(calls) : ~IsWrite(calls[i])

\* a move wrote its target object
C1_Witness ==
    /\ last.op = "MoveMediaToDisk" /\ ~last.err
    /\ \E i \in 1..Len(calls) : IsWrite(calls[i]) /\ calls[i].ok

\* C2: a PerformConversions call on a record whose index already marks a
\* requested name (an earlier call succeeded for it) issues no Transform and
\* no Save for that name and leaves it marked; the call that marks a name
\* stored exactly one artifact for it.
C2_SecondCallSkips ==
    [][\A id \in DOMAIN media :
          (last'.op = "PerformConversions" /\ last'.id = id) =>
             \A i \in 1..Len(last'.names) :
                LET n == last'.names[i]
                    stores == {k \in At(calls', "Save") :
                                  calls'[k].path = GetPathForConversion(media[id], n)}
                IN  /\ n \in Marks(media[id]) =>
                          /\ n \in Marks(media'[id])
                          /\ stores = {}
                          /\ \A k \in At(calls', "Transform") : calls'[k].name # n
                    /\ n \in Marks(media'[id]) \ Marks(media[id]) =>
                          /\ Cardinality({k \in stores : calls'[k].ok}) = 1
                          /\ GetPathForConversion(media[id], n)
                                 \in DOMAIN store'[media[id].ConversionsDisk]
      ]_vars

\* the second call for a name: it returned no error, transformed nothing and
\* the name is marked
C2_Witness ==
    /\ last.op = "PerformConversions" /\ ~last.err /\ last.names # <<>>
    /\ At(calls, "Transform") = {}
    /\ last.names[1] \in Marks(media[last.id])

\* C3: a PerformConversions call that reaches its final repository Save, and
\* whose final Save succeeds, returns no error; it has tried every requested
\* name that was not marked, whatever failed before it; and the index it
\* leaves is the prior index plus the names whose artifact was stored.
C3_PartialFailure ==
    [][\A id \in DOMAIN media :
          (/\ last'.op = "PerformConversions" /\ last'.id = id
           /\ calls' # <<>>
           /\ calls'[Len(calls')].t = "RepoSave" /\ calls'[Len(calls')].ok) =>
             /\ ~last'.err
             /\ \A i \in 1..Len(last'.names) :
                   last'.names[i] \notin Marks(media[id]) =>
                      \E k \in At(calls', "Transform") : calls'[k].name = last'.names[i]
             /\ Marks(media'[id]) =
                   Marks(media[id]) \cup
                   {n \in {last'.names[i] : i \in 1..Len(last'.names)} :
                       \E k \in At(calls', "Save") :
                          /\ calls'[k].ok
                          /\ calls'[k].path = GetPathForConversion(media[id], n)}
      ]_vars

\* one name failed and a later one was stored, and the call returned no error
C3_Witness ==
    /\ last.op = "PerformConversions" /\ ~last.err
    /\ \E i, j \in 1..Len(calls) :
          /\ i < j
          /\ calls[i].t \in {"Transform", "Save"} /\ ~calls[i].ok
          /\ calls[j].t = "Save" /\ calls[j].ok

\* C4 as stated: every PerformConversions and GenerateResponsiveImages call
\* ends with one repository Save, and returns an error only when that Save
\* failed.
C4_AlwaysPersists ==
    last.op \in GeneratingOps =>
        /\ Cardinality(At(calls, "RepoSave")) = 1
        /\ calls[Len(calls)].t = "RepoSave"
        /\ last.err => ~calls[Len(calls)].ok

\* C4, amended: a call that got past its preparation (disk lookups, fetch and
\* decode of the original) ends with exactly one repository Save, whether or
\* not any conversion succeeded, and returns an error exactly when that Save
\* failed; a call whose preparation fails returns an error and issues no
\* repository Save, no Transform and no Save on the conversions backend.
C4_PersistsOncePrepared ==
    last.op \in GeneratingOps =>
        IF Prepared(media[last.id], calls)
        THEN /\ Cardinality(At(calls, "RepoSave")) = 1
             /\ calls[Len(calls)].t = "RepoSave"
             /\ last.err <=> ~calls[Len(calls)].ok
        ELSE /\ last.err
             /\ \A k \in 1..Len(calls) : calls[k].t = "Get"

\* every requested conversion failed and the index was saved all the same
C4_Witness ==
    /\ last.op = "PerformConversions" /\ ~last.err
    /\ \E k \in At(calls, "Transform") : ~calls[k].ok
    /\ \A k \in At(calls, "Save") : ~calls[k].ok
    /\ calls[Len(calls)].t = "RepoSave" /\ calls[Len(calls)].ok

\* C5: a name that a PerformConversions call adds to generatedConversions,
\* and a width that a GenerateResponsiveImages call adds to
\* responsiveImages[name], had in that call a successful Transform followed by
\* a successful Save on the record's conversions disk at the record's
\* conversion path (responsive path), and the artifact is there; so a name or
\* width whose attempts all failed is not added.  The same holds for the
\* index of a record an ingestion returns.
C5_MarkedAfterStore ==
    [][/\ \A id \in DOMAIN media :
             (last'.op \in GeneratingOps /\ last'.id = id) =>
                /\ \A n \in Marks(media'[id]) \ Marks(media[id]) :
                      /\ last'.op = "PerformConversions"
                      /\ \E j, k \in 1..Len(calls') :
                            /\ j < k
                            /\ calls'[j] = Ev("Transform", "", <<>>, n, TRUE)
                            /\ calls'[k] = Ev("Save", media[id].ConversionsDisk,
                                              GetPathForConversion(media[id], n), "", TRUE)
                      /\ GetPathForConversion(media[id], n)
                             \in DOMAIN store'[media[id].ConversionsDisk]
                /\ \A p \in WidthMarks(media'[id]) \ WidthMarks(media[id]) :
                      /\ last'.op = "GenerateResponsiveImages"
                      /\ \E w \in WidthsOf(p[1]) :
                            /\ ToString(w) = p[2]
                            /\ \E j, k \in 1..Len(calls') :
                                  /\ j < k
                                  /\ calls'[j] = Ev("Transform", "", <<>>, p[1], TRUE)
                                  /\ calls'[k] =
                                        Ev("Save", media[id].ConversionsDisk,
                                           GetPathForResponsiveImage(media[id], p[1], w),
                                           "", TRUE)
                            /\ GetPathForResponsiveImage(media[id], p[1], w)
                                   \in DOMAIN store'[media[id].ConversionsDisk]
       /\ (last'.op \in {"AddMediaFromURL", "AddMediaFromDisk", "AddMediaFromDiskToDisk"}
             /\ ~last'.err) =>
             \A n \in Marks(media'[last'.ret]) :
                \E k \in 1..Len(calls') :
                   calls'[k] = Ev("Save", media'[last'.ret].ConversionsDisk,
                                  GetPathForConversion(media'[last'.ret], n), "", TRUE)
      ]_vars

\* one width failed and another was stored and recorded in the same call
C5_Witness ==
    /\ last.op = "GenerateResponsiveImages" /\ ~last.err
    /\ \E k \in At(calls, "Save") : ~calls[k].ok
    /\ \E k \in At(calls, "Save") : calls[k].ok
    /\ Cardinality(WidthMarks(media[last.id])) = 1

\* C6: every conversion name and every (name, width) pair that the index of
\* the record handed to a PerformConversions or GenerateResponsiveImages call
\* marks before the call is marked after it.
C6_IndexGrows ==
    [][\A id \in DOMAIN media :
          (last'.op \in GeneratingOps /\ last'.id = id) =>
             /\ Marks(media[id]) \subseteq Marks(media'[id])
             /\ WidthMarks(media[id]) \subseteq WidthMarks(media'[id])
      ]_vars

\* a PerformConversions call on a record whose index was not empty added a name
C6_Witness ==
    /\ last.op = "PerformConversions" /\ ~last.err
    /\ Cardinality(At(calls, "Save")) = 1
    /\ Cardinality(Marks(media[last.id])) = 2

\* C7: after a MoveMediaToDisk(r, target) that returned no error, the
\* returned record has an ID and a UUID that differ from r's and its disk is
\* target; no object is left at r's path on r's disk; and the object at the
\* returned record's path on target is the content r's object had before.
C7_MoveTransfers ==
    [][\A id \in DOMAIN media :
          (last'.op = "MoveMediaToDisk" /\ last'.id = id /\ ~last'.err) =>
             /\ last'.ret \in DOMAIN media'
             /\ media'[last'.ret].ID # media[id].ID
             /\ media'[last'.ret].ID # 0
             /\ media'[last'.ret].UUID # media[id].UUID
             /\ media'[last'.ret].Disk = last'.target
             /\ GetPath(media[id]) \notin DOMAIN store'[media[id].Disk]
             /\ GetPath(media'[last'.ret]) \in DOMAIN store'[last'.target]
             /\ store'[last'.target][GetPath(media'[last'.ret])]
                   = store[media[id].Disk][GetPath(media[id])]
      ]_vars

\* a record was moved to the disk it was on
C7_Witness ==
    /\ last.op = "MoveMediaToDisk" /\ ~last.err
    /\ last.target = media[last.id].Disk
    /\ GetPath(media[last.ret]) \in DOMAIN store[last.target]

\* C8: a CopyMediaToDisk(r, target) that returned no error returns a new
\* record, with an ID and a UUID no other record has, whose disk is target and
\* whose object on target equals r's bytes; r, r's row in the repository and
\* the object at r's path on r's disk are what they were.
C8_CopyLeavesSource ==
    [][\A id \in DOMAIN media :
          (last'.op = "CopyMediaToDisk" /\ last'.id = id /\ ~last'.err) =>
             /\ last'.ret \in DOMAIN media' \ DOMAIN media
             /\ media'[last'.ret].ID = last'.ret /\ last'.ret # 0
             /\ \A other \in DOMAIN media : media'[last'.ret].UUID # media[other].UUID
             /\ media'[last'.ret].Disk = last'.target
             /\ store'[last'.target][GetPath(media'[last'.ret])]
                   = store[media[id].Disk][GetPath(media[id])]
             /\ media'[id] = media[id]
             /\ repo'[id] = repo[id]
             /\ store'[media[id].Disk][GetPath(media[id])]
                   = store[media[id].Disk][GetPath(media[id])]
      ]_vars

\* a record was copied to another disk than its own
C8_Witness ==
    /\ last.op = "CopyMediaToDisk" /\ ~last.err
    /\ last.target # media[last.id].Disk
    /\ GetPath(media[last.ret]) \in DOMAIN store[last.target]
    /\ GetPath(media[last.id]) \in DOMAIN store[media[last.id].Disk]

\* C9: after a CopyMediaToDisk that returned no error, every conversion name
\* the source's index marks is marked in the copy's index, and no object is
\* stored at the copy's conversion path for it on the copy's conversions disk.
C9_CopyWithoutArtifacts ==
    [][\A id \in DOMAIN media :
          (last'.op = "CopyMediaToDisk" /\ last'.id = id /\ ~last'.err) =>
             \A n \in Marks(media[id]) :
                /\ n \in Marks(media'[last'.ret])
                /\ GetPathForConversion(media'[last'.ret], n)
                      \notin DOMAIN store'[media'[last'.ret].ConversionsDisk]
      ]_vars

\* the copied record had a conversion whose artifact is stored
C9_Witness ==
    /\ last.op = "CopyMediaToDisk" /\ ~last.err
    /\ \E n \in Marks(media[last.id]) :
          GetPathForConversion(media[last.id], n)
             \in DOMAIN store[media[last.id].ConversionsDisk]

\* C10: GetURLForMediaConversion(r, n) returns the empty string when r's
\* index does not mark n; when it marks n and r's conversions disk is
\* registered it returns that disk's URL for GetPathForConversion(r, n), which
\* is not empty; it reports no error.
C10_ConversionURL ==
    last.op = "GetURLForMediaConversion" =>
        LET m == media[last.id]
            n == last.names[1]
        IN  /\ ~last.err
            /\ n \notin Marks(m) => last.url = <<>>
            /\ (n \in Marks(m) /\ m.ConversionsDisk \in disks) =>
                  /\ last.url = URL(m.ConversionsDisk, GetPathForConversion(m, n))
                  /\ last.url # <<>>

\* the URL of a generated conversion was resolved
C10_Witness ==
    /\ last.op = "GetURLForMediaConversion"
    /\ last.names[1] \in Marks(media[last.id])
    /\ last.url # <<>>

\* C11: GetURLForResponsiveImage(r, n, w) returns the conversions disk's URL
\* for the responsive path of (r, n, w) when r's index records width w for n
\* (and the conversions disk is registered), and the empty string when it
\* does not record it.
C11_ResponsiveURL ==
    last.op = "GetURLForResponsiveImage" =>
        LET m == media[last.id]
            n == last.names[1]
        IN  \A w \in Widths :
               ToString(w) = last.target =>
                  /\ (<<n, last.target>> \in WidthMarks(m) /\ GetDisk(m.ConversionsDisk)) =>
                        /\ last.url = URL(m.ConversionsDisk,
                                          GetPathForResponsiveImage(m, n, w))
                        /\ last.url # <<>>
                  /\ <<n, last.target>> \notin WidthMarks(m) => last.url = <<>>

\* C12: a GenerateResponsiveImages call that returned no error, having read
\* and decoded the original, in which every Save on the conversions disk succeeded and no registered
\* conversion function failed, leaves, for every requested name registered as
\* a responsive recipe, every width of the recipe recorded; it issued no Save
\* and no Transform for a width that was recorded before the call and exactly
\* one Save, at the responsive path, for each width that was not.
C12_ResponsiveComplete ==
    [][\A id \in DOMAIN media :
          (/\ last'.op = "GenerateResponsiveImages" /\ last'.id = id /\ ~last'.err
           /\ Prepared(media[id], calls')
           /\ \A k \in At(calls', "Save") : calls'[k].ok
           /\ \A k \in At(calls', "Transform") :
                 calls'[k].name \in conversions => calls'[k].ok) =>
             \A i \in 1..Len(last'.names) : \A w \in WidthsOf(last'.names[i]) :
                LET n == last'.names[i]
                    stores == {k \in At(calls', "Save") :
                                  calls'[k].path = GetPathForResponsiveImage(media[id], n, w)}
                IN  /\ <<n, ToString(w)>> \in WidthMarks(media'[id])
                    /\ IF <<n, ToString(w)>> \in WidthMarks(media[id])
                       THEN stores = {}
                       ELSE /\ Cardinality(stores) = 1
                            /\ GetPathForResponsiveImage(media[id], n, w)
                                   \in DOMAIN store'[media[id].ConversionsDisk]
      ]_vars

\* the position in the log of the write of the original: the first write
\* (0 when the call wrote nothing)
OriginalWrite(log) ==
    IF \E i \in 1..Len(log) : IsWrite(log[i])
    THEN CHOOSE i \in 1..Len(log) : IsWrite(log[i]) /\ \A k \in 1..(i - 1) : ~IsWrite(log[k])
    ELSE 0

\* the call saved its new record and then failed to write the original
WriteFailedAfterSave ==
    /\ last.op \in CreatingOps
    /\ OriginalWrite(calls) # 0
    /\ ~calls[OriginalWrite(calls)].ok
    /\ \E j \in 1..(OriginalWrite(calls) - 1) : calls[j].t = "RepoSave" /\ calls[j].ok

\* the call stopped at its failed write, returned an error and no record,
\* and the row it created is still the last row of the repository
AbortedWithOrphan ==
    /\ last.err /\ last.ret = 0
    /\ OriginalWrite(calls) = Len(calls)
    /\ repo # <<>>
    /\ repo[Len(repo)].ID = Len(repo)
    /\ repo[Len(repo)].ID \notin DOMAIN media
    /\ calls[Len(calls)].disk = repo[Len(repo)].Disk
    /\ calls[Len(calls)].path = GetPath(repo[Len(repo)])

\* C13 as stated: when an ingestion, copy or move saved its record and the
\* write of the original then failed, the call stops there, returns an error
\* and no record, the saved row stays in the repository, and no object is
\* stored at the row's path on its disk.
C13_OrphanNoObject ==
    WriteFailedAfterSave =>
        /\ AbortedWithOrphan
        /\ GetPath(repo[Len(repo)]) \notin DOMAIN store[repo[Len(repo)].Disk]

\* C13, amended: when an ingestion, copy or move saved its record and the
\* write of the original then failed, the call stops there, returns an error
\* and no record, and the saved row stays in the repository; on an S3 disk no
\* object is stored at the row's path, on a local disk either no file is
\* there or the truncated file that the failed copy left behind.
C13_OrphanNoWholeObject ==
    WriteFailedAfterSave =>
        /\ AbortedWithOrphan
        /\ \/ GetPath(repo[Len(repo)]) \notin DOMAIN store[repo[Len(repo)].Disk]
           \/ /\ repo[Len(repo)].Disk \in LocalDisks
              /\ store[repo[Len(repo)].Disk][GetPath(repo[Len(repo)])] = Truncated

\* a copy saved its record, the write to the target failed, and the row is
\* in the repository with nothing at its path
C13_Witness ==
    /\ last.op = "CopyMediaToDisk"
    /\ WriteFailedAfterSave
    /\ Len(repo) = 2
    /\ GetPath(repo[2]) \notin DOMAIN store[repo[2].Disk]

\* C14: a MoveMediaToDisk call whose Delete of the source object failed
\* returns an error and no record; the row it created is in the repository,
\* with the target disk and an ID the caller holds no record for, and the
\* object it wrote is at that row's path on the target disk.
C14_DeleteFailure ==
    (last.op = "MoveMediaToDisk" /\ \E k \in At(calls, "Delete") : ~calls[k].ok) =>
        /\ last.err /\ last.ret = 0
        /\ calls[Len(calls)].t = "Delete"
        /\ repo # <<>>
        /\ repo[Len(repo)].ID = Len(repo)
        /\ repo[Len(repo)].ID \notin DOMAIN media
        /\ repo[Len(repo)].Disk = last.target
        /\ repo[Len(repo)].UUID # media[last.id].UUID
        /\ GetPath(repo[Len(repo)]) \in DOMAIN store[last.target]
        /\ \E k \in At(calls, "Save") :
              calls[k] = Ev("Save", last.target, GetPath(repo[Len(repo)]), "", TRUE)

\* the Delete of a move failed and the old object is still on the source disk
C14_Witness ==
    /\ last.op = "MoveMediaToDisk" /\ last.err
    /\ \E k \in At(calls, "Delete") : ~calls[k].ok
    /\ GetPath(media[last.id]) \in DOMAIN store[media[last.id].Disk]
    /\ GetPath(repo[Len(repo)]) \in DOMAIN store[last.target]

\* C15: an ingestion, copy or move call that was given a malformed URL, a
\* local file that cannot be opened, a source object that does not exist or a
\* disk name that is not registered returns an error and no record, having
\* issued no repository Save, no Save or SaveFromURL and no Delete; the
\* repository, the backends and the caller's records are what they were.
C15_FailFast ==
    [][(last'.op \in CreatingOps /\ last'.input.faults # {}) =>
          /\ last'.err /\ last'.ret = 0
          /\ \A k \in 1..Len(calls') :
                calls'[k].t \notin {"RepoSave", "Save", "SaveFromURL", "Delete"}
          /\ repo' = repo /\ store' = store /\ media' = media
      ]_vars

\* a copy of a record whose object is gone (it was moved away) failed
C15_Witness ==
    /\ last.op = "CopyMediaToDisk" /\ last.err
    /\ last.input.faults = {"no source object"}
    /\ Len(repo) = 2


\* the ingestion reached its generation step: everything before it succeeded,
\* which is when it returns its record
ReachedGeneration == last.op \in IngestOps /\ ~last.err

\* C16: an ingestion that gets as far as its generation step calls
\* PerformConversions once when the effective auto-generate flag is on and the
\* effective conversion-name list is not empty, and not at all otherwise; an
\* ingestion that called it returns its record and no error, whether or not
\* PerformConversions returned an error.
C16_ConversionsGate ==
    last.op \in IngestOps =>
        /\ ReachedGeneration =>
              Cardinality(At(calls, "PerformConversions"))
                 = IF last.input.auto /\ last.input.conv # <<>> THEN 1 ELSE 0
        /\ At(calls, "PerformConversions") # {} =>
              /\ ~last.err
              /\ last.ret # 0 /\ last.ret \in DOMAIN media

\* an ingestion whose PerformConversions call returned an error returned its
\* record
C16_Witness ==
    /\ last.op \in IngestOps /\ ~last.err
    /\ \E k \in At(calls, "PerformConversions") : ~calls[k].ok
    /\ last.ret \in DOMAIN media

\* C17: an ingestion that gets as far as its generation step calls
\* GenerateResponsiveImages once when the effective responsive list is not
\* empty, whatever the auto-generate flag, and not at all when it is empty;
\* an ingestion that called it returns its record and no error.
C17_ResponsiveGate ==
    last.op \in IngestOps =>
        /\ ReachedGeneration =>
              Cardinality(At(calls, "GenerateResponsiveImages"))
                 = IF last.input.resp # <<>> THEN 1 ELSE 0
        /\ At(calls, "GenerateResponsiveImages") # {} =>
              /\ ~last.err
              /\ last.ret # 0 /\ last.ret \in DOMAIN media

\* the names goroutine t stored an artifact for, by its own log
StoredBy(t) ==
    {n \in ConversionNames :
        \E k \in At(threads[t].log, "Save") :
           /\ threads[t].log[k].ok
           /\ threads[t].log[k].path = GetPathForConversion(threads[t].m, n)}

\* C18: the final Save of a PerformConversions call writes the index that
\* call built from its own loaded copy (the names the copy marked plus the
\* names the call stored), whatever another call on the same record saved
\* since the copy was loaded: the last writer's index replaces the row's.
C18_LastWriterWins ==
    [][\A t \in Threads :
          (threads[t].pc = "loop" /\ threads'[t].pc = "done" /\ ~threads'[t].err) =>
             /\ repo'[threads[t].m.ID].GeneratedConversions
                   = MarshalBoolMap(threads[t].gc)
             /\ Marks(repo'[threads[t].m.ID]) = Marks(threads[t].m) \cup StoredBy(t)
      ]_vars

\* two calls on the same record have both returned without error, and a name
\* whose artifact one of them stored is not in the persisted index
C18_Witness ==
    /\ \A t \in Threads : threads[t].pc = "done" /\ ~threads[t].err
    /\ threads[1].m.ID = threads[2].m.ID
    /\ \E t \in Threads : \E n \in StoredBy(t) :
          /\ n \notin Marks(repo[threads[t].m.ID])
          /\ GetPathForConversion(threads[t].m, n)
                \in DOMAIN store[threads[t].m.ConversionsDisk]

\* the names goroutine t stored an artifact for before its context was
\* cancelled
StoredBeforeCancel(t) ==
    {n \in ConversionNames :
        \E k \in At(threads[t].log, "Save") : \E c \in At(threads[t].log, "Cancel") :
           /\ k < c
           /\ threads[t].log[k].ok
           /\ threads[t].log[k].path = GetPathForConversion(threads[t].m, n)}

\* C20: when a PerformConversions call whose context was cancelled during
\* the loop has returned, the index of the record it was handed marks every
\* name whose artifact the call stored before the cancellation (and every
\* name it stored at all).
C20_CancelKeepsMarks ==
    \A t \in Threads :
       (threads[t].pc = "done" /\ threads[t].cancelled) =>
          /\ StoredBeforeCancel(t) \subseteq Marks(threads[t].m)
          /\ StoredBy(t) \subseteq Marks(threads[t].m)

\* a call stored one name, was cancelled, and returned the error of its final
\* Save: the name is marked in the caller's record and not in the row
C20_Witness ==
    \E t \in Threads :
       /\ threads[t].pc = "done" /\ threads[t].cancelled /\ threads[t].err
       /\ StoredBeforeCancel(t) # {}
       /\ \E n \in StoredBeforeCancel(t) :
             n \in Marks(threads[t].m) /\ n \notin Marks(repo[threads[t].m.ID])

\* the names asked for at every retry that the transformer has a conversion for
RetryRegistered == {RetryNames[i] : i \in 1..Len(RetryNames)} \cap conversions

\* every registered name of RetryNames is marked in the caller's record id
AllPresent(id) ==
    id \in DOMAIN media /\ RetryRegistered \subseteq Marks(media[id])

\* C19, each re-invocation: a PerformConversions call with the same names,
\* made once the backends work, on a record whose original it can read and
\* decode, leaves every registered name marked, the names skipped by earlier
\* calls included; it issues one successful Save for each name that was not
\* marked and no Transform and no Save for a name that was.
C19_RetryStep ==
    [][\A id \in DOMAIN media :
          (/\ last'.op = "PerformConversions" /\ last'.id = id /\ healthy
           /\ Prepared(media[id], calls')) =>
             /\ ~last'.err
             /\ \A n \in RetryRegistered :
                   /\ n \in Marks(media'[id])
                   /\ IF n \in Marks(media[id])
                      THEN \A k \in 1..Len(calls') :
                              /\ calls'[k].name # n
                              /\ calls'[k].path # GetPathForConversion(media[id], n)
                      ELSE \E j, k \in 1..Len(calls') :
                              /\ j < k
                              /\ calls'[j] = Ev("Transform", "", <<>>, n, TRUE)
                              /\ calls'[k] = Ev("Save", media[id].ConversionsDisk,
                                                GetPathForConversion(media[id], n),
                                                "", TRUE)
      ]_vars

\* a PerformConversions call of the caller has just returned
Reinvoked == last.op = "PerformConversions"

\* C19: every such re-invocation behaves as C19_RetryStep says, and when the
\* caller re-invokes again and again and the backends eventually work, a
\* record for which some name was skipped ends with every registered name
\* present.
C19_RetryCompletes ==
    /\ C19_RetryStep
    /\ \A id \in 1..MaxIngested :
          ([]<>Reinvoked) => ((id \in DOMAIN media /\ skipped # {}) ~> AllPresent(id))

\* a re-invocation under working backends stored a name that an earlier call
\* had skipped and left alone a name that was already marked
C19_Witness ==
    /\ last.op = "PerformConversions" /\ ~last.err /\ healthy
    /\ AllPresent(last.id)
    /\ Cardinality(At(calls, "Save")) = 1
    /\ \E n \in skipped :
          \E k \in At(calls, "Save") :
             calls[k] = Ev("Save", media[last.id].ConversionsDisk,
                           GetPathForConversion(media[last.id], n), "", TRUE)

\* the goroutines inside the critical section of an update, of a lookup
Updating == {t \in Threads : callers[t].op \in Updates
                             /\ callers[t].pc \in {"locked", "writing", "unlock"}}
LookingUp == {t \in Threads : callers[t].op \in Lookups
                              /\ callers[t].pc \in {"locked", "unlock"}}

\* C21: AddDisk and RemoveDisk run holding the write lock alone and GetDisk
\* and HasDisk holding the read lock with no writer, and what a lookup
\* returns is what the registry held under the name either before or after
\* the updates concurrent with it: the storage last put under the name, or
\* not found when the name is not in the registry.
C21_RegistryAtomic ==
    /\ \A t \in Updating : dm.mu.w = t /\ dm.mu.r = {}
    /\ \A t \in LookingUp : t \in dm.mu.r /\ dm.mu.w = 0
    /\ \A t \in Threads :
         callers[t].op \in Lookups /\ callers[t].pc \in {"unlock", "done"}
            => /\ callers[t].ret \in callers[t].seen
               /\ callers[t].op = "GetDisk" /\ ~callers[t].ret.ok
                     => callers[t].ret.storage = NoStorage

\* a GetDisk has returned the storage another goroutine put under "s3" in
\* place of the one registered at start, while a further update waits for
\* the lock
C21_Witness ==
    \E t, u \in Threads :
        /\ callers[t].op = "GetDisk" /\ callers[t].pc = "unlock"
        /\ callers[t].name = "s3"
        /\ callers[t].ret = Answer("LocalStorage", TRUE)
        /\ callers[u].op = "RemoveDisk" /\ callers[u].pc = "lock"
        /\ callers[u].name = "s3"

\* the rows of the repository other than row id
OtherRows(rows, id) == {i \in 1..Len(rows) : i # id}

\* C22: an ingestion call that returns a record has added exactly one row to
\* the repository; the row has an ID and a UUID no earlier row has, and its
\* original is stored under a key no earlier record's original has.
C22_NotIdempotent ==
    [][(Idle /\ last'.op \in IngestOps /\ ~last'.err)
          => /\ Len(repo') = Len(repo) + 1
             /\ SubSeq(repo', 1, Len(repo)) = repo
             /\ last'.ret = Len(repo')
             /\ repo'[last'.ret].ID = last'.ret
             /\ GetPath(repo'[last'.ret]) \in DOMAIN store'[repo'[last'.ret].Disk]
             /\ \A i \in 1..Len(repo) :
                   /\ repo[i].ID # repo'[last'.ret].ID
                   /\ repo[i].UUID # repo'[last'.ret].UUID
                   /\ GetPath(repo[i]) # GetPath(repo'[last'.ret])]_vars

\* the same URL (the only source whose file is named "notes") was ingested
\* twice and both calls returned a record
C22_Witness ==
    /\ last.op = "AddMediaFromURL" /\ ~last.err /\ last.ret = 2
    /\ DOMAIN media = {1, 2}
    /\ media[1].FileName = NotesName /\ media[2].FileName = NotesName
    /\ media[1].Disk = media[2].Disk
    /\ GetPath(media[1]) \in DOMAIN store[media[1].Disk]
    /\ GetPath(media[2]) \in DOMAIN store[media[2].Disk]
    /\ media[1].UUID # media[2].UUID

\* the option keys an option list sets
KeysSet(options) == {options[i].k : i \in 1..Len(options)}

\* C23: the effective options of an ingestion call are the library's options
\* overridden by the per-call options in the order given (for
\* AddMediaFromDiskToDisk the default disk is the targetDisk argument): an
\* option the call sets replaces the library's value, an option it does not
\* set keeps it, and the custom properties are the union of both, the
\* per-call value winning.
C23_EffectiveOptions ==
    probe.fn = "CallOptions"
       => probe.opts = ApplyOptions(IF probe.variant = "AddMediaFromDiskToDisk"
                                    THEN [probe.defaults EXCEPT !.DefaultDisk = probe.targetDisk]
                                    ELSE probe.defaults,
                                    probe.options)

\* C24: a library constructed without WithDefaultDisk has default disk "s3",
\* without WithAutoGenerateConversions has auto-generation off, and without
\* WithConversionsDisk has its default disk as conversions disk.
C24_ConstructionDefaults ==
    probe.fn = "NewDefaultMediaLibrary"
       => /\ "DefaultDisk" \notin KeysSet(probe.options)
                => probe.defaults.DefaultDisk = "s3"
          /\ "AutoGenerateConversions" \notin KeysSet(probe.options)
                => ~probe.defaults.AutoGenerateConversions
          /\ "ConversionsDisk" \notin KeysSet(probe.options)
                => probe.defaults.ConversionsDisk = probe.defaults.DefaultDisk

\* a file name up to its last dot, the whole name when it has no dot
WithoutLastExtension(f) == IF LastDot(f) = 0 THEN f ELSE SubSeq(f, 1, LastDot(f) - 1)

\* C25: every ingestion variant returns a record whose name is the name given
\* with WithName when that is not empty, and otherwise the record's file name
\* (the base name of the source) without its last extension; the row in the
\* repository has the same name.
C25_DisplayName ==
    last.op \in IngestOps /\ ~last.err
       => /\ media[last.ret].Name =
                IF last.input.name # <<>> THEN last.input.name
                ELSE WithoutLastExtension(media[last.ret].FileName)
          /\ repo[last.ret].Name = media[last.ret].Name

\* a URL whose file name has two dots was ingested without WithName, after a
\* first ingestion that was given a name
C25_Witness ==
    /\ last.op = "AddMediaFromURL" /\ ~last.err /\ last.ret = 2
    /\ last.input.name = <<>>
    /\ media[2].FileName = BackupName
    /\ media[2].Name = <<"backup", ".", "tar">>
    /\ 1 \in DOMAIN media /\ media[1].Name = <<"cover">>

\* a file name cut at its last dot: the stem before it, and the extension
\* from the dot on (empty when the name has no dot)
Stem(f)      == IF LastDot(f) = 0 THEN f ELSE SubSeq(f, 1, LastDot(f) - 1)
Extension(f) == IF LastDot(f) = 0 THEN <<>> ELSE SubSeq(f, LastDot(f), Len(f))

\* the string prefix/ID/ that starts every path of a record
Directory(pfx, id) == pfx \o <<"/", ToString(id), "/">>

C27_ResolutionReadOnly ==
    [][last'.op \in URLOps
          => /\ calls' = <<>>
             /\ store' = store /\ repo' = repo /\ media' = media /\ disks' = disks
             /\ (last'.op \in OriginalURLOps /\ last'.id \in DOMAIN media
                     /\ GetDisk(media[last'.id].Disk))
                   => /\ last'.url = URL(media[last'.id].Disk, GetPath(media[last'.id]))
                      /\ last'.url # <<>>]_vars

\* GetURLForMedia returned a URL for a record whose object was moved away
C27_Witness ==
    /\ last.op = "GetURLForMedia" /\ last.id \in DOMAIN media
    /\ last.url # <<>>
    /\ GetPath(media[last.id]) \notin DOMAIN store[media[last.id].Disk]
    /\ Len(repo) = 2

\* the disk a URL method asks the disk manager for
DiskAsked(op, m) == IF op \in OriginalURLOps THEN m.Disk ELSE m.ConversionsDisk

\* C28: a URL method returns the empty string, and no error or panic, when
\* its record is nil and when the record's disk (the conversions disk for
\* the conversion and responsive methods) is not registered.
C28_EmptyOnLookupFailure ==
    last.op \in URLOps
       => /\ ~last.err
          /\ last.id = 0 => last.url = <<>>
          /\ (last.id \in DOMAIN media /\ ~GetDisk(DiskAsked(last.op, media[last.id])))
                => last.url = <<>>

\* GetURLForMediaConversion returned "" for a conversion the record marks
\* present, because the conversions disk is no longer registered
C28_Witness ==
    /\ last.op = "GetURLForMediaConversion" /\ last.id \in DOMAIN media
    /\ last.names = <<"thumb">>
    /\ "thumb" \in Marks(media[last.id])
    /\ ~GetDisk(media[last.id].ConversionsDisk)
    /\ last.url = <<>>

\* C29: url(path) of a backend that cannot produce a URL is the empty
\* string: local storage without a base URL, and S3 storage with neither a
\* base URL nor public URLs.
C29_EmptyURL ==
    probe.fn = "URL"
       => /\ (probe.backend = "LocalStorage" /\ probe.BaseURL = <<>>)
                => probe.url = <<>>
          /\ (probe.backend = "S3Storage" /\ probe.BaseURL = <<>> /\ ~probe.PublicURLs)
                => probe.url = <<>>

\* the last token of a file name when the token before it is a dot
LastExtension(f) == IF Len(f) >= 2 /\ f[Len(f) - 1] = "." THEN f[Len(f)] ELSE ""

\* C30: the encoder of a derived artifact is the PNG encoder when the
\* original file name ends in .png, the GIF encoder when it ends in .gif and
\* the JPEG encoder otherwise, in PerformConversions and in
\* GenerateResponsiveImages alike and whatever the recipe's Format option.
C30_EncoderByExtension ==
    probe.fn = "Encode"
       => probe.bytes[1] = CASE LastExtension(probe.FileName) = "png" -> "png"
                             [] LastExtension(probe.FileName) = "gif" -> "gif"
                             [] OTHER                                 -> "jpeg"

\* a responsive image of anim.gif was encoded for a recipe whose Format
\* option is "png"
C30_Witness ==
    /\ probe.fn = "Encode" /\ probe.method = "GenerateResponsiveImages"
    /\ probe.FileName = <<"anim", ".", "gif">> /\ probe.format = "png"
    /\ probe.bytes[1] = "gif"

\* C31: no operation changes the ID or the UUID of a record: every record in
\* the caller's hands and every row of the repository keeps both across the
\* re-persist of an ingestion, PerformConversions, GenerateResponsiveImages,
\* copy, move and URL resolution, and each saved row has an ID and a UUID.
C31_IdentityImmutable ==
    [][/\ \A id \in DOMAIN media :
             /\ id \in DOMAIN media'
             /\ media'[id].ID = media[id].ID
             /\ media'[id].UUID = media[id].UUID
       /\ \A i \in 1..Len(repo) :
             /\ i <= Len(repo')
             /\ repo'[i].ID = repo[i].ID
             /\ repo'[i].UUID = repo[i].UUID
       /\ \A i \in 1..Len(repo') : repo'[i].ID = i /\ repo'[i].UUID # <<>>
      ]_vars

\* PerformConversions stored a conversion for a copy and saved the copy's
\* row, under the ID and UUID the copy was given
C31_Witness ==
    /\ last.op = "PerformConversions" /\ ~last.err
    /\ last.id = 2 /\ Len(repo) = 2
    /\ Cardinality(At(calls, "Save")) = 1
    /\ At(calls, "RepoSave") # {}
    /\ repo[2].ID = 2 /\ repo[2].UUID = media[2].UUID
    /\ repo[2].UUID # repo[1].UUID

\* C32: CopyMediaToDisk and MoveMediaToDisk leave every existing row of the
\* repository as it was, whatever they return; a call that returned no error
\* added exactly one row, the returned record's; and after a move that
\* returned no error the source's row is unchanged while no object is left
\* at the source's path.
C32_TransferAddsOneRow ==
    [][\A id \in DOMAIN media :
          (last'.op \in {"CopyMediaToDisk", "MoveMediaToDisk"} /\ last'.id = id) =>
             /\ Len(repo') >= Len(repo)
             /\ \A i \in 1..Len(repo) : repo'[i] = repo[i]
             /\ ~last'.err =>
                   /\ Len(repo') = Len(repo) + 1
                   /\ last'.ret = Len(repo')
                   /\ repo'[last'.ret].UUID = media'[last'.ret].UUID
             /\ (~last'.err /\ last'.op = "MoveMediaToDisk") =>
                   /\ repo'[id] = repo[id]
                   /\ GetPath(media[id]) \notin DOMAIN store'[media[id].Disk]
      ]_vars

\* a move returned the new record: the repository holds the source's row and
\* the new one, and the source's object is gone
C32_Witness ==
    /\ last.op = "MoveMediaToDisk" /\ ~last.err
    /\ Len(repo) = 2 /\ last.id = 1 /\ last.ret = 2
    /\ repo[1].Disk = media[1].Disk
    /\ GetPath(repo[1]) \notin DOMAIN store[repo[1].Disk]
    /\ GetPath(repo[2]) \in DOMAIN store[repo[2].Disk]

\* the elements of a sequence
Range(seq) == {seq[i] : i \in 1..Len(seq)}

\* C33: a PerformConversions call whose requested names are all marked
\* present in the record's index returns no error, whether or not the
\* original object is still in storage, and issues no backend call: no fetch
\* of the original, no transform, no store.
C33_AllPresentNoFetch ==
    [][\A id \in DOMAIN media :
          (/\ last'.op = "PerformConversions" /\ last'.id = id
           /\ Range(last'.names) \subseteq Marks(media[id])
           /\ GetDisk(media[id].Disk) /\ GetDisk(media[id].ConversionsDisk))
          => /\ ~last'.err
             /\ At(calls', "Get") = {}
             /\ At(calls', "Transform") = {}
             /\ At(calls', "Save") = {}
             /\ store' = store
      ]_vars

\* the names the index of record m marks present although no object is at
\* their conversion path on the conversions disk
Stale(m) ==
    {n \in Marks(m) : GetPathForConversion(m, n) \notin DOMAIN store[m.ConversionsDisk]}

\* C34: a PerformConversions call that returned no error has repaired the
\* stale entries it was asked for: for each requested name that the record's
\* index marked without an artifact (as a copied or moved record's index
\* does), the artifact is at the record's conversion path after the call.
C34_RegenerationRepairs ==
    [][\A id \in DOMAIN media :
          (last'.op = "PerformConversions" /\ last'.id = id /\ ~last'.err) =>
             \A n \in Range(last'.names) \cap Stale(media[id]) :
                GetPathForConversion(media'[id], n)
                   \in DOMAIN store'[media'[id].ConversionsDisk]
      ]_vars

\* C36: when PerformConversions or GenerateResponsiveImages returns an
\* error, the record the caller passed has the generatedConversions and the
\* responsiveImages it had before the call, and marks nothing that the
\* record's row in the repository does not mark.
C36_ErrorLeavesRecord ==
    [][\A id \in DOMAIN media :
          (last'.op \in GeneratingOps /\ last'.id = id /\ last'.err) =>
             /\ media'[id].GeneratedConversions = media[id].GeneratedConversions
             /\ media'[id].ResponsiveImages = media[id].ResponsiveImages
             /\ Marks(media'[id]) \subseteq Marks(repo'[id])
             /\ WidthMarks(media'[id]) \subseteq WidthMarks(repo'[id])
      ]_vars

\* C37: the record an AddMediaFromURLToModel call returns is owned by the
\* model type and model ID passed as its arguments, whatever additional
\* options the call was given.
C37_OwnerAsPassed ==
    (last.op = "AddMediaFromURLToModel" /\ ~last.err) =>
        /\ media[last.ret].ModelType = last.input.modelType
        /\ media[last.ret].ModelID = last.input.modelID

\* C38: a GenerateResponsiveImages call leaves the transformer's registry
\* as it was: every registered responsive recipe has the width list and the
\* options, the options' width included, that it had before the call.
C38_RegistryReadOnly ==
    [][last'.op = "GenerateResponsiveImages" => recipes' = recipes]_vars

\* C39: the conversion key and the responsive key computed for a record
\* differ from each other, from the key of the record's own original and
\* from the key of any other record's original, whatever the IDs and the
\* file names: generation never writes to a key that holds an original.
C39_KeysDisjoint ==
    probe.fn = "Keys"
       => /\ probe.conversion # probe.responsive
          /\ probe.conversion \notin {probe.original, probe.otherOriginal}
          /\ probe.responsive \notin {probe.original, probe.otherOriginal}

\* the keys of photo.png with ID 1 next to an original named photo-thumb.png
\* under the same ID: the conversion's file name equals the other original's
\* file name, and the keys differ
C39_Witness ==
    /\ probe.fn = "Keys" /\ probe.prefix = <<"media">>
    /\ probe.of = [ID |-> 1, FileName |-> PhotoName]
    /\ probe.other = [ID |-> 1, FileName |-> <<"photo", "-", "thumb", ".", "png">>]
    /\ probe.conversionName = "thumb"
    /\ probe.otherOriginal = <<"media", "/", "1", "/", "photo", "-", "thumb", ".", "png">>
    /\ probe.conversion = <<"media", "/", "1", "/", "thumb", "/", "conversions", "/",
                            "photo", "-", "thumb", ".", "png">>

\* C35: every encoder goroutine that a generation call starts eventually
\* returns, whatever the outcome of its encode-then-store step.
C35_EncodersTerminate ==
    \A k \in Steps : (enc.task[k].pc # "none") ~> (enc.task[k].pc = "done")

====
